---- MODULE Spec2Model ----
(***************************************************************************)
(* A model of mabwiser's Simulator (src/mabwiser/simulator/simulator.py):  *)
(* construction and argument validation, run() with its statistics,       *)
(* train/test split, training, and the offline and online replay loops.   *)
(*                                                                         *)
(* Policies, the evaluator, the scaler, sklearn's confusion_matrix and     *)
(* train_test_split are collaborators.  Each is modelled by a small        *)
(* deterministic stand-in whose results depend on exactly the arguments    *)
(* and the state the real collaborator depends on, and every call made on  *)
(* a collaborator is appended to the log `calls`.                          *)
(***************************************************************************)
EXTENDS Integers, Sequences, FiniteSets, TLC

(***************************************************************************)
(* Bounds of the model.                                                    *)
(***************************************************************************)
MaxBandits == 2
MaxRows == 4
MaxStatLen == 4

(***************************************************************************)
(* Program constants of the chunk-size heuristic (_run_train_test_split). *)
(***************************************************************************)
BytesPerDistance == 8
BytesPerGB == 1000000000

(***************************************************************************)
(* Generic helpers.                                                        *)
(***************************************************************************)
Min2(a, b) == IF a <= b THEN a ELSE b
Max2(a, b) == IF a >= b THEN a ELSE b

\* math.ceil(a / b) for integers a >= 0, b > 0
CeilDiv(a, b) == (a + b - 1) \div b

RECURSIVE SumSeq(_)
SumSeq(s) == IF s = <<>> THEN 0 ELSE Head(s) + SumSeq(Tail(s))

RECURSIVE MinSeq(_)
MinSeq(s) == IF Len(s) = 1 THEN s[1] ELSE Min2(Head(s), MinSeq(Tail(s)))

RECURSIVE MaxSeq(_)
MaxSeq(s) == IF Len(s) = 1 THEN s[1] ELSE Max2(Head(s), MaxSeq(Tail(s)))

RECURSIVE Flatten(_)
Flatten(ss) == IF ss = <<>> THEN <<>> ELSE Head(ss) \o Flatten(Tail(ss))

SetOf(xs) == {xs[k] : k \in 1..Len(xs)}

\* a Python dict: a function on its key set
EmptyDict == <<>>
Put(d, key, v) == [x \in (DOMAIN d) \cup {key} |-> IF x = key THEN v ELSE d[x]]

(***************************************************************************)
(* Arrays.  A numpy array is held as `pad` copies of `fill` followed by    *)
(* the explicit elements `xs`, so that a long history prefix (needed to    *)
(* cross the 1 GB threshold of the chunk-size heuristic) is representable. *)
(* Positions are 0-based as in Python.                                     *)
(***************************************************************************)
Arr(pad, fill, xs) == [pad |-> pad, fill |-> fill, xs |-> xs]
ALen(a) == a.pad + Len(a.xs)
AGet(a, i) == IF i < a.pad THEN a.fill ELSE a.xs[i - a.pad + 1]

\* a[lo:hi] with Python's clamping of the bounds, 0 <= lo
ASlice(a, lo, hi) ==
    LET h == Min2(hi, ALen(a))
        l == Min2(lo, h)
    IN  Arr(Max2(0, Min2(h, a.pad) - l),
            a.fill,
            SubSeq(a.xs, Max2(l, a.pad) - a.pad + 1, h - a.pad))

\* the explicit element list of an array without padding
AList(a) == a.xs


(***************************************************************************)
(* Exact arithmetic on fractions.  A float such as test_size is held as    *)
(* the fraction [num, den]; the inputs use fractions whose denominator is  *)
(* a power of two, for which the double arithmetic of the code is exact.   *)
(* MulDiv(a, b, c) is <<floor(a*b/c), (a*b) mod c>> computed by doubling,  *)
(* so that no intermediate value leaves the 32-bit range; a multiplier     *)
(* above c/2 is taken through its complement, a*b = a*c - a*(c-b).         *)
(***************************************************************************)
RECURSIVE MulDiv(_, _, _)
MulDiv(a, b, c) ==
    IF b = 0 THEN <<0, 0>>
    ELSE IF b <= c /\ 2 * b > c
    THEN LET m == MulDiv(a, c - b, c)
         IN  IF m[2] = 0 THEN <<a - m[1], 0>> ELSE <<a - m[1] - 1, c - m[2]>>
    ELSE LET h  == MulDiv(a, b \div 2, c)
             q2 == 2 * h[1] + ((2 * h[2]) \div c)
             r2 == (2 * h[2]) % c
         IN  IF b % 2 = 0 THEN <<q2, r2>>
             ELSE <<q2 + (a \div c) + ((r2 + (a % c)) \div c), (r2 + (a % c)) % c>>

\* int(n * x) and math.ceil(n * x) for a fraction x >= 0
FloorMul(n, x) == MulDiv(n, x.num, x.den)[1]
CeilMul(n, x) == LET md == MulDiv(n, x.num, x.den) IN md[1] + (IF md[2] > 0 THEN 1 ELSE 0)
OneMinus(x) == [num |-> x.den - x.num, den |-> x.den]

(***************************************************************************)
(* Descriptive statistics: Simulator.get_stats and Simulator.get_arm_stats *)
(***************************************************************************)
\* np.where(xs == arm) on the explicit elements: the 1-based positions, ascending
RECURSIVE WhereFrom(_, _, _)
WhereFrom(xs, arm, i) ==
    IF i > Len(xs) THEN <<>>
    ELSE (IF xs[i] = arm THEN <<i>> ELSE <<>>) \o WhereFrom(xs, arm, i + 1)

\* a search that starts at the second row
WhereMutant(decisions, arm) ==
    [pad |-> IF decisions.fill = arm THEN decisions.pad ELSE 0,
     idx |-> WhereFrom(decisions.xs, arm, 2)]

\* indices = np.where(decisions == arm)
Where(decisions, arm) ==
    [pad |-> IF decisions.fill = arm THEN decisions.pad ELSE 0,
     idx |-> WhereFrom(decisions.xs, arm, 1)]

\* rewards[indices]
Take(rewards, indices) ==
    Arr(indices.pad, rewards.fill, [k \in 1..Len(indices.idx) |-> rewards.xs[indices.idx[k]]])

\* every element of an array, the padding element once
Elems(a) == (IF a.pad > 0 THEN <<a.fill>> ELSE <<>>) \o a.xs

\* mean is the fraction sum/count; std is reduced to 0 (all rewards equal) or 1 (positive)
get_stats(rewards) ==
    [count |-> ALen(rewards),
     sum   |-> rewards.pad * rewards.fill + SumSeq(rewards.xs),
     min   |-> MinSeq(Elems(rewards)),
     max   |-> MaxSeq(Elems(rewards)),
     mean  |-> [num |-> rewards.pad * rewards.fill + SumSeq(rewards.xs), den |-> ALen(rewards)],
     std   |-> IF MinSeq(Elems(rewards)) = MaxSeq(Elems(rewards)) THEN 0 ELSE 1]

ZeroStats ==
    [count |-> 0, sum |-> 0, min |-> 0, max |-> 0, mean |-> [num |-> 0, den |-> 1], std |-> 0]

\* statistics that leave out the arms without a row
get_arm_statsMutant(arms, decisions, rewards) ==
    [arm \in {a \in arms : Where(decisions, a).pad + Len(Where(decisions, a).idx) > 0} |->
        get_stats(Take(rewards, Where(decisions, arm)))]

get_arm_stats(arms, decisions, rewards) ==
    [arm \in arms |->
        LET indices == Where(decisions, arm)
        IN  IF indices.pad + Len(indices.idx) > 0
            THEN get_stats(Take(rewards, indices))
            ELSE ZeroStats]

(***************************************************************************)
(* sklearn.metrics.confusion_matrix(y_true, y_pred) without a labels       *)
(* argument: the matrix is indexed by the labels that occur in either      *)
(* sequence; it raises ValueError when the lengths differ (the callers     *)
(* test ConsistentLength first).                                           *)
(***************************************************************************)
ConsistentLength(y_true, y_pred) == Len(y_true) = Len(y_pred)

Labels(y_true, y_pred) ==
    {y_true[k] : k \in 1..Len(y_true)} \cup {y_pred[k] : k \in 1..Len(y_pred)}

confusion_matrix(y_true, y_pred) ==
    [labels |-> Labels(y_true, y_pred),
     m |-> [c \in Labels(y_true, y_pred) \X Labels(y_true, y_pred) |->
               Cardinality({k \in 1..Len(y_true) : y_true[k] = c[1] /\ y_pred[k] = c[2]})]]

(***************************************************************************)
(* Policies (the ModelAdapter contract).  A policy object is a record: its *)
(* class, the class of its implementation, its configuration, and what it  *)
(* has learnt and drawn so far.  The stand-in decides an arm from the      *)
(* context value, the number of incremental updates it has received, and,  *)
(* for a radius or k-nearest simulator, from the distances it currently    *)
(* holds (their rows, and the metric they were computed with).             *)
(***************************************************************************)
ArmList == <<"A", "B">>
ArmSet == {ArmList[k] : k \in 1..Len(ArmList)}
ArmAt(n) == ArmList[(n % Len(ArmList)) + 1]

NoDistances == [set |-> FALSE, metric |-> "none", rows |-> <<>>, hist |-> 0]

Policy(cls, imp, contextual, metric, n_jobs, salt) ==
    [cls |-> cls, imp |-> imp, is_contextual |-> contextual, metric |-> metric,
     n_jobs |-> n_jobs, salt |-> salt, arms |-> ArmList, is_quick |-> FALSE,
     fits |-> 0, hist |-> 0, ver |-> 0, rng |-> 0, distances |-> NoDistances,
     row_arm_to_expectation |-> <<>>, neighborhood_sizes |-> <<>>,
     neighborhood_arm_to_stat |-> <<>>]

MabEpsilonGreedy == Policy("MAB", "_EpsilonGreedy", FALSE, "none", 1, 0)
MabLinUCB == Policy("MAB", "_Linear", TRUE, "none", 1, 0)
MabLSH == Policy("MAB", "_LSHNearest", TRUE, "none", 1, 1)
MabRadius == Policy("MAB", "_Radius", TRUE, "euclidean", 1, 0)
MabKNearest == Policy("MAB", "_KNearest", TRUE, "cityblock", 2, 0)
NotAMab == Policy("object", "none", FALSE, "none", 1, 0)

MabTypes == {MabEpsilonGreedy, MabLinUCB, MabLSH, MabRadius, MabKNearest}

\* isinstance tests of the replay loops
IsMAB(mab) == mab.cls = "MAB"
IsMABOrBaseMAB(mab) == mab.cls # "object"
IsRadiusOrKNearestSimulator(mab) == mab.cls \in {"_RadiusSimulator", "_KNearestSimulator"}
IsLSHSimulator(mab) == mab.cls = "_LSHSimulator"
IsRadiusOrLSHSimulator(mab) == mab.cls \in {"_RadiusSimulator", "_LSHSimulator"}
IsNeighborsSimulator(mab) ==
    mab.cls \in {"_RadiusSimulator", "_KNearestSimulator", "_LSHSimulator"}
ImpIsNeighbors(mab) == mab.cls = "MAB" /\ mab.imp \in {"_Radius", "_KNearest", "_LSHNearest"}

MetricCode(metric) == IF metric = "cityblock" THEN 1 ELSE 0

\* a returned value that is a list, or a single item when one row was asked for
ListValue(xs) == [list |-> TRUE, xs |-> xs]
Returned(xs) == [list |-> Len(xs) # 1, xs |-> xs]

\* mab.fit(decisions, rewards[, contexts]): training from scratch
fit(mab, decisions) ==
    [mab EXCEPT !.fits = @ + 1, !.hist = ALen(decisions), !.ver = 0, !.rng = 0]

\* mab.partial_fit(decisions, rewards[, contexts]): one incremental update
partial_fit(mab, decisions) ==
    [mab EXCEPT !.hist = @ + ALen(decisions), !.ver = @ + 1]

\* mab.calculate_distances(contexts): from every row to the training history
calculate_distances(mab, rows) ==
    [set |-> TRUE, metric |-> mab.metric, rows |-> rows, hist |-> mab.hist]

\* the context value row k is decided from
RowOf(mab, rows, k) ==
    IF IsRadiusOrKNearestSimulator(mab) /\ k <= Len(mab.distances.rows)
    THEN mab.distances.rows[k] ELSE rows[k]

MetricOf(mab) ==
    IF IsRadiusOrKNearestSimulator(mab) THEN mab.distances.metric ELSE mab.metric

\* the arms mab.predict(contexts) decides, one per row
PredictRows(mab, rows) ==
    [k \in 1..Len(rows) |->
        ArmAt(RowOf(mab, rows, k) + mab.ver + mab.salt + MetricCode(MetricOf(mab)))]

\* the arms of n successive calls of mab.predict() of a context-free policy
PredictDraws(mab, n) == [k \in 1..n |-> ArmAt(mab.rng + (k - 1) + mab.ver)]

\* an arm_to_expectation mapping, identified by the row and the state it was made in
Expectation(mab, c) == [ctx |-> c, ver |-> mab.ver]
ExpectRows(mab, rows) == [k \in 1..Len(rows) |-> Expectation(mab, RowOf(mab, rows, k))]

\* the policy object after predict(contexts): a simulator variant records one
\* expectation per row, and neighborhood sizes and statistics unless it is quick
AfterPredict(mab, rows) ==
    IF IsNeighborsSimulator(mab)
    THEN [mab EXCEPT
            !.row_arm_to_expectation = @ \o ExpectRows(mab, rows),
            !.neighborhood_sizes = IF mab.is_quick THEN @ ELSE @ \o rows,
            !.neighborhood_arm_to_stat = IF mab.is_quick THEN @ ELSE @ \o rows]
    ELSE mab

\* the policy object after n calls of predict() without contexts
AfterDraws(mab, n) == [mab EXCEPT !.rng = @ + n]

\* utilities.general.effective_jobs(size, n_jobs) for n_jobs >= 1
effective_jobs(size, n_jobs) == Min2(n_jobs, size)

\* the simulation-instrumented variant built by _train_bandits, a fresh object
Simulated(imp, cls, is_quick) ==
    [Policy(cls, imp.imp, TRUE, imp.metric, imp.n_jobs, imp.salt) EXCEPT !.is_quick = is_quick]

(***************************************************************************)
(* State.                                                                  *)
(*   args   the arguments of Simulator(...), fixed for a behaviour         *)
(*   pc     the position of the control thread                             *)
(*   err    the type of the exception that ended construction or run()     *)
(*   attrs  the names of the attributes stored on the Simulator so far     *)
(*   sim    the attributes of the Simulator                                *)
(*   loc    the local variables of run() and of the replay loops           *)
(*   calls  the calls made so far on policies, evaluator, scaler, sklearn  *)
(*   fn     argument and result of a statistics call made on its own       *)
(***************************************************************************)
VARIABLES args, pc, err, attrs, sim, loc, calls, fn

vars == <<args, pc, err, attrs, sim, loc, calls, fn>>

Frac(n, d) == [num |-> n, den |-> d]
NoContexts == [given |-> FALSE, ndim |-> 2, arr |-> Arr(0, 0, <<>>)]
Contexts(a) == [given |-> TRUE, ndim |-> 2, arr |-> a]

Call(op, b, i, j, rows) == [op |-> op, b |-> b, i |-> i, j |-> j, rows |-> rows]

(***************************************************************************)
(* Failing policies.  args.fault names the one policy operation that       *)
(* raises when it is invoked: operation op of policy b, in batch i (-1     *)
(* offline and for fit) and chunk j (-1 for fit and partial_fit).  run()   *)
(* and the loops it calls hold no exception handler, so the exception      *)
(* leaves run() at once.                                                   *)
(***************************************************************************)
\* no operation of any policy is going to fail
NoFault == [op |-> "none", b |-> 0, i |-> -1, j |-> -1]

Fails(op, b, i, j) == args.fault = [op |-> op, b |-> b, i |-> i, j |-> j]

\* a loop that logs the failure and carries on
PropagateMutant(resume) == resume

\* where control is after a policy operation raised inside a loop at position resume
Propagate(resume) == "raised"

(***************************************************************************)
(* Simulator._validate_args: the type of the first error, "" when valid.   *)
(* check_true raises its exception when the condition is false; check_len  *)
(* raises ValueError on different lengths; validate_2d raises TypeError    *)
(* unless the array has two dimensions; check_fit_input raises TypeError   *)
(* on decisions or rewards of an unsupported type.                         *)
(***************************************************************************)
check_len(a, b) == IF ALen(a) = ALen(b) THEN "" ELSE "ValueError"
validate_2d(contexts) == IF contexts.ndim = 2 THEN "" ELSE "TypeError"
check_fit_input(a) == IF a.fit_input_ok THEN "" ELSE "TypeError"

\* the loop over the (name, mab) pairs: the first failing check
RECURSIVE ValidatePairs(_, _)
ValidatePairs(bandits, k) ==
    IF k > Len(bandits) THEN ""
    ELSE IF ~bandits[k].name_is_str THEN "TypeError"
    ELSE IF ~IsMABOrBaseMAB(bandits[k].mab) THEN "TypeError"
    ELSE ValidatePairs(bandits, k + 1)

\* a bound that forgets the test fraction
BatchSizeOkMutant(a) ==
    a.config.batch_size > 0 => a.config.batch_size <= ALen(a.decisions)

BatchSizeOk(a) ==
    a.config.batch_size > 0 =>
        a.config.batch_size <= CeilMul(ALen(a.decisions), a.config.test_size)

\* a validation that skips the loop over the pairs
_validate_argsMutant(a) ==
    IF ~a.bandits_is_list THEN "TypeError"
    ELSE IF check_fit_input(a) # "" THEN check_fit_input(a)
    ELSE IF a.contexts.given /\ validate_2d(a.contexts) # "" THEN validate_2d(a.contexts)
    ELSE IF a.contexts.given /\ check_len(a.decisions, a.contexts.arr) # ""
         THEN check_len(a.decisions, a.contexts.arr)
    ELSE IF check_len(a.decisions, a.rewards) # "" THEN check_len(a.decisions, a.rewards)
    ELSE IF ~BatchSizeOk(a) THEN "ValueError"
    ELSE ""

_validate_args(a) ==
    IF ~a.bandits_is_list THEN "TypeError"
    ELSE IF ValidatePairs(a.bandits, 1) # "" THEN ValidatePairs(a.bandits, 1)
    ELSE IF check_fit_input(a) # "" THEN check_fit_input(a)
    ELSE IF a.contexts.given /\ validate_2d(a.contexts) # "" THEN validate_2d(a.contexts)
    ELSE IF a.contexts.given /\ check_len(a.decisions, a.contexts.arr) # ""
         THEN check_len(a.decisions, a.contexts.arr)
    ELSE IF check_len(a.decisions, a.rewards) # "" THEN check_len(a.decisions, a.rewards)
    ELSE IF ~BatchSizeOk(a) THEN "ValueError"
    ELSE ""

(***************************************************************************)
(* Simulator.__init__                                                      *)
(***************************************************************************)
\* the attributes of an object on which nothing has been stored yet
BlankSim ==
    [config |-> [batch_size |-> 0, test_size |-> Frac(1, 2), is_ordered |-> TRUE,
                 is_quick |-> FALSE, seed |-> 0],
     bandits |-> <<>>, decisions |-> Arr(0, "A", <<>>), rewards |-> Arr(0, 0, <<>>),
     contexts |-> NoContexts, scaler |-> "none", _online |-> FALSE, _chunk_size |-> 0,
     arms |-> <<>>, max_n_jobs |-> 0,
     arm_to_stats_total |-> EmptyDict, arm_to_stats_train |-> EmptyDict,
     arm_to_stats_test |-> EmptyDict,
     bandit_to_arm_to_stats_min |-> EmptyDict, bandit_to_arm_to_stats_avg |-> EmptyDict,
     bandit_to_arm_to_stats_max |-> EmptyDict, bandit_to_confusion_matrices |-> EmptyDict,
     bandit_to_predictions |-> EmptyDict, bandit_to_expectations |-> EmptyDict,
     bandit_to_neighborhood_size |-> EmptyDict,
     bandit_to_arm_to_stats_neighborhoods |-> EmptyDict,
     test_indices |-> <<>>]

\* the attributes stored between validation and the read of self.bandits[0]
SavedAttrs ==
    {"config", "bandits", "decisions", "rewards", "contexts", "scaler",
     "_online", "_chunk_size", "logger"}

\* the attributes stored by the rest of the constructor
InitializedAttrs ==
    {"arms", "max_n_jobs", "arm_to_stats_total", "arm_to_stats_train", "arm_to_stats_test",
     "bandit_to_arm_to_stats_min", "bandit_to_arm_to_stats_avg",
     "bandit_to_arm_to_stats_max", "bandit_to_confusion_matrices",
     "bandit_to_predictions", "bandit_to_expectations", "bandit_to_neighborhood_size",
     "bandit_to_arm_to_stats_neighborhoods", "test_indices"}

\* the parameters saved right after validation
SaveParameters(s, a) ==
    [s EXCEPT !.config = a.config,
              !.bandits = [k \in 1..Len(a.bandits) |->
                              [name |-> a.bandits[k].name, mab |-> a.bandits[k].mab]],
              !.decisions = a.decisions, !.rewards = a.rewards, !.contexts = a.contexts,
              !.scaler = a.scaler,
              !._online = (a.config.batch_size > 0),
              !._chunk_size = 100]

\* max of effective_jobs(ceil(len(decisions) * test_size), mab.config.n_jobs)
MaxJobs(bandits, size) ==
    MaxSeq([k \in 1..Len(bandits) |-> effective_jobs(size, bandits[k].mab.n_jobs)])

Construct ==
    /\ pc = "new"
    /\ IF _validate_args(args) # ""
       THEN /\ sim' = [sim EXCEPT !.config = args.config]
            /\ attrs' = {"config"}
            /\ pc' = "failed"
            /\ err' = _validate_args(args)
       ELSE IF Len(args.bandits) = 0
       THEN /\ sim' = SaveParameters(sim, args)
            /\ attrs' = SavedAttrs
            /\ pc' = "failed"
            /\ err' = "IndexError"
       ELSE /\ sim' = [SaveParameters(sim, args) EXCEPT
                          !.arms = args.bandits[1].mab.arms,
                          !.max_n_jobs =
                              MaxJobs(args.bandits,
                                      CeilMul(ALen(args.decisions), args.config.test_size))]
            /\ attrs' = SavedAttrs \cup InitializedAttrs
            /\ pc' = "constructed"
            /\ err' = ""
    /\ UNCHANGED <<args, loc, calls, fn>>

(***************************************************************************)
(* run(): local variables.                                                 *)
(***************************************************************************)
NoData == [decisions |-> Arr(0, "A", <<>>), rewards |-> Arr(0, 0, <<>>), contexts |-> NoContexts]
Data(d, r, c) == [decisions |-> d, rewards |-> r, contexts |-> c]

BlankLoc ==
    [train |-> NoData, test |-> NoData, batch |-> NoData, chunk |-> NoData,
     new_bandits |-> <<>>, b |-> 1, i |-> 0, j |-> 0, n_batches |-> 0, n_chunks |-> 0,
     start |-> 0, stop |-> 0, chunk_start |-> 0, chunk_stop |-> 0,
     distances |-> NoDistances,
     batch_predictions |-> EmptyDict, batch_expectations |-> EmptyDict]

\* a[lo:hi] on a Python list
PySlice(xs, lo, hi) == SubSeq(xs, Min2(lo, Len(xs)) + 1, Min2(hi, Len(xs)))

\* contexts[lo:hi] if contexts is not None else None
SliceContexts(c, lo, hi) == IF c.given THEN Contexts(ASlice(c.arr, lo, hi)) ELSE NoContexts

\* the contexts cut one row before the decisions and rewards
SliceDataMutant(d, lo, hi) ==
    Data(ASlice(d.decisions, lo, hi), ASlice(d.rewards, lo, hi),
         SliceContexts(d.contexts, Max2(lo - 1, 0), hi))

SliceData(d, lo, hi) ==
    Data(ASlice(d.decisions, lo, hi), ASlice(d.rewards, lo, hi), SliceContexts(d.contexts, lo, hi))

(***************************************************************************)
(* run(), first step: _set_stats("total", self.decisions, self.rewards)    *)
(***************************************************************************)
_set_stats(s, scope, decisions, rewards) ==
    IF scope = "total"
    THEN [s EXCEPT !.arm_to_stats_total = get_arm_stats(SetOf(s.arms), decisions, rewards)]
    ELSE IF scope = "train"
    THEN [s EXCEPT !.arm_to_stats_train = get_arm_stats(SetOf(s.arms), decisions, rewards)]
    ELSE [s EXCEPT !.arm_to_stats_test = get_arm_stats(SetOf(s.arms), decisions, rewards)]

RunTotalStats ==
    /\ pc = "constructed"
    /\ sim' = _set_stats(sim, "total", sim.decisions, sim.rewards)
    /\ loc' = BlankLoc
    /\ pc' = "split"
    /\ UNCHANGED <<args, err, attrs, calls, fn>>

(***************************************************************************)
(* _run_train_test_split                                                   *)
(***************************************************************************)
\* sklearn's train_test_split: the test set has ceil(test_size * n) rows, the first
\* rows of a permutation fixed by random_state; the train set is the rest of it
Permutation(n, seed) == [k \in 1..n |-> ((k - 1) * (n - 1) + seed) % n]

TakeRows(a, indices) == Arr(0, a.fill, [k \in 1..Len(indices) |-> AGet(a, indices[k])])

TakeData(d, indices) ==
    Data(TakeRows(d.decisions, indices), TakeRows(d.rewards, indices),
         IF d.contexts.given THEN Contexts(TakeRows(d.contexts.arr, indices)) ELSE NoContexts)

\* the chunk size chosen from the memory estimate of the shared distance list:
\* distance_list_size = test * (8 * train) / 1e9 exceeds 1.0 exactly when
\* test > floor(1e9 / (8 * train)), and int(test / distance_list_size) is
\* floor(1e9 / (8 * train))
DistanceListOverOneGB(n_test, n_train) ==
    n_train > 0 /\ n_test > BytesPerGB \div (BytesPerDistance * n_train)

\* a chunk size that takes no account of the parallel jobs
ChunkSizeMutant(n_test, n_train, has_contexts, max_n_jobs) ==
    IF DistanceListOverOneGB(n_test, n_train) /\ has_contexts
    THEN Min2(BytesPerGB \div (BytesPerDistance * n_train), n_test)
    ELSE n_test

ChunkSize(n_test, n_train, has_contexts, max_n_jobs) ==
    IF DistanceListOverOneGB(n_test, n_train) /\ has_contexts
    THEN Min2((BytesPerGB \div (BytesPerDistance * n_train)) * max_n_jobs, n_test)
    ELSE n_test

\* a train size taken as the rows left by floor(n * test_size)
TrainSizeMutant(n, test_size) == n - FloorMul(n, test_size)

TrainSize(n, test_size) == FloorMul(n, OneMinus(test_size))

RunTrainTestSplit ==
    /\ pc = "split"
    /\ LET all == Data(sim.decisions, sim.rewards, sim.contexts)
           n == ALen(sim.decisions)
           train_size == TrainSize(n, sim.config.test_size)
           n_test == CeilMul(n, sim.config.test_size)
           perm == Permutation(n, sim.config.seed)
           train == IF sim.config.is_ordered THEN SliceData(all, 0, train_size)
                    ELSE TakeData(all, SubSeq(perm, n_test + 1, n))
           test == IF sim.config.is_ordered THEN SliceData(all, train_size, n)
                   ELSE TakeData(all, SubSeq(perm, 1, n_test))
       IN  /\ loc' = [loc EXCEPT !.train = train, !.test = test]
           /\ sim' = [sim EXCEPT
                        !.test_indices =
                            IF sim.config.is_ordered
                            THEN [k \in 1..(n - train_size) |-> train_size + k - 1]
                            ELSE SubSeq(perm, 1, n_test),
                        !._chunk_size =
                            ChunkSize(ALen(test.decisions), ALen(train.decisions),
                                      train.contexts.given, sim.max_n_jobs)]
           /\ calls' = IF sim.config.is_ordered THEN calls
                       ELSE Append(calls, Call("train_test_split", 0, -1, -1, NoData))
    /\ pc' = "stats"
    /\ UNCHANGED <<args, err, attrs, fn>>

(***************************************************************************)
(* run(): optional scaling, then the train and test statistics             *)
(***************************************************************************)
\* the scaler's transformation of one context value
Scaled(c) == c + 1
ScaleContexts(c) ==
    Contexts(Arr(c.arr.pad, Scaled(c.arr.fill), [k \in 1..Len(c.arr.xs) |-> Scaled(c.arr.xs[k])]))

\* a scaler fitted on the test contexts and applied to the train contexts
_run_scalerCallsMutant(l) ==
    <<Call("scaler.fit_transform", 0, -1, -1, l.test),
      Call("scaler.transform", 0, -1, -1, l.train)>>

\* train_contexts = self.scaler.fit_transform(train_contexts)
\* test_contexts = self.scaler.transform(test_contexts)
_run_scalerCalls(l) ==
    <<Call("scaler.fit_transform", 0, -1, -1, l.train),
      Call("scaler.transform", 0, -1, -1, l.test)>>

\* the scaler in place on the slices of the simulator's own contexts
_run_scalerMutant(s, l) ==
    [sim |-> [s EXCEPT !.contexts = IF @.given THEN ScaleContexts(@) ELSE @],
     loc |-> [l EXCEPT !.train.contexts = ScaleContexts(@), !.test.contexts = ScaleContexts(@)]]

\* train_contexts, test_contexts = self._run_scaler(train_contexts, test_contexts):
\* the results are new arrays bound to the locals of run(); the simulator is as it was
_run_scaler(s, l) ==
    [sim |-> s,
     loc |-> [l EXCEPT !.train.contexts = ScaleContexts(@), !.test.contexts = ScaleContexts(@)]]

RunScaleAndStats ==
    /\ pc = "stats"
    /\ IF sim.scaler # "none" /\ ~loc.train.contexts.given
       THEN \* the scaler is handed None
            /\ pc' = "raised"
            /\ err' = "ValueError"
            /\ calls' = Append(calls, _run_scalerCalls(loc)[1])
            /\ UNCHANGED <<sim, loc>>
       ELSE LET scaled == IF sim.scaler = "none" THEN [sim |-> sim, loc |-> loc]
                          ELSE _run_scaler(sim, loc)
                train == scaled.loc.train
                test == scaled.loc.test
            IN  /\ loc' = [loc EXCEPT !.train = train, !.test = test, !.b = 1,
                                      !.new_bandits = <<>>]
                /\ calls' = IF sim.scaler = "none" THEN calls
                            ELSE calls \o _run_scalerCalls(loc)
                /\ sim' = _set_stats(_set_stats(scaled.sim, "train", train.decisions, train.rewards),
                                     "test", test.decisions, test.rewards)
                /\ pc' = "train"
                /\ err' = err
    /\ UNCHANGED <<args, attrs, fn>>

(***************************************************************************)
(* _train_bandits, one bandit of its loop per step                         *)
(***************************************************************************)
\* imp = mab._imp if isinstance(mab, MAB) else mab: the class the wrapping looks at
ImpClass(mab) == IF IsMAB(mab) THEN mab.imp ELSE mab.cls

\* the object that is trained and replayed in place of mab
Wrapped(mab, is_quick) ==
    IF ImpClass(mab) = "_Radius" THEN Simulated(mab, "_RadiusSimulator", is_quick)
    ELSE IF ImpClass(mab) = "_KNearest" THEN Simulated(mab, "_KNearestSimulator", is_quick)
    ELSE IF ImpClass(mab) = "_LSHNearest" THEN Simulated(mab, "_LSHSimulator", is_quick)
    ELSE mab

\* the per-bandit result tables as _train_bandits resets them
\* tables created for a new name and kept for a name that has them
ResetTablesMutant(s, name) ==
    IF name \in DOMAIN s.bandit_to_predictions THEN s
    ELSE [s EXCEPT !.bandit_to_predictions = Put(@, name, <<>>),
                   !.bandit_to_expectations = Put(@, name, ListValue(<<>>)),
                   !.bandit_to_neighborhood_size = Put(@, name, <<>>),
                   !.bandit_to_arm_to_stats_neighborhoods = Put(@, name, <<>>),
                   !.bandit_to_confusion_matrices = Put(@, name, <<>>),
                   !.bandit_to_arm_to_stats_min = Put(@, name, EmptyDict),
                   !.bandit_to_arm_to_stats_avg = Put(@, name, EmptyDict),
                   !.bandit_to_arm_to_stats_max = Put(@, name, EmptyDict)]

ResetTables(s, name) ==
    [s EXCEPT !.bandit_to_predictions = Put(@, name, <<>>),
              !.bandit_to_expectations = Put(@, name, ListValue(<<>>)),
              !.bandit_to_neighborhood_size = Put(@, name, <<>>),
              !.bandit_to_arm_to_stats_neighborhoods = Put(@, name, <<>>),
              !.bandit_to_confusion_matrices = Put(@, name, <<>>),
              !.bandit_to_arm_to_stats_min = Put(@, name, EmptyDict),
              !.bandit_to_arm_to_stats_avg = Put(@, name, EmptyDict),
              !.bandit_to_arm_to_stats_max = Put(@, name, EmptyDict)]

\* contexts handed to every policy
HandedMutant(mab, d) == d

\* the data a policy is handed: contexts only if it is contextual
Handed(mab, d) == IF mab.is_contextual THEN d ELSE [d EXCEPT !.contexts = NoContexts]

\* a loop that fits the policy on the test set
FitCallsMutant(mab, b, l) == <<Call("fit", b, -1, -1, Handed(mab, l.test))>>

\* mab.fit(train_decisions, train_rewards[, train_contexts])
FitCalls(mab, b, l) == <<Call("fit", b, -1, -1, Handed(mab, l.train))>>

TrainBandit ==
    /\ pc = "train"
    /\ LET b == loc.b
           name == sim.bandits[b].name
           mab == Wrapped(sim.bandits[b].mab, sim.config.is_quick)
           new_bandits == Append(loc.new_bandits, [name |-> name, mab |-> fit(mab, loc.train.decisions)])
       IN  /\ calls' = calls \o FitCalls(mab, b, loc)
           /\ IF Fails("fit", b, -1, -1) \/ (mab.is_contextual /\ ~loc.train.contexts.given)
              THEN \* fit raises: at will, or a contextual policy fitted with contexts None
                   /\ sim' = ResetTables(sim, name)
                   /\ pc' = Propagate("train")
                   /\ err' = IF Fails("fit", b, -1, -1) THEN "PolicyError" ELSE "TypeError"
                   /\ loc' = loc
              ELSE /\ sim' = IF b = Len(sim.bandits)
                             THEN [ResetTables(sim, name) EXCEPT !.bandits = new_bandits]
                             ELSE ResetTables(sim, name)
                   /\ loc' = [loc EXCEPT !.new_bandits = new_bandits, !.b = b + 1]
                   /\ pc' = IF b = Len(sim.bandits) THEN "test" ELSE "train"
                   /\ err' = err
    /\ UNCHANGED <<args, attrs, fn>>

(***************************************************************************)
(* The prediction of one policy on one chunk, shared by both replay loops. *)
(***************************************************************************)
\* if distances is None: distances = mab.calculate_distances(chunk_contexts)
\* else: mab.set_distances(distances)
\* gives the distances of the chunk afterwards; the policy holds the same
\* a loop that never finds the distances of the chunk
CacheEmptyMutant(distances) == TRUE

\* distances is None
CacheEmpty(distances) == ~distances.set

ObtainDistances(mab, rows, distances) ==
    IF CacheEmpty(distances) THEN calculate_distances(mab, rows) ELSE distances

DistanceCall(distances) ==
    IF CacheEmpty(distances) THEN "calculate_distances" ELSE "set_distances"

\* the policy object as it enters predict
Prepared(mab, rows, distances) ==
    IF mab.is_contextual /\ IsRadiusOrKNearestSimulator(mab)
    THEN [mab EXCEPT !.distances = ObtainDistances(mab, rows, distances)]
    ELSE mab

\* what mab.predict(chunk_contexts), or len(chunk) calls of mab.predict(), return
Predictions(mab, rows, distances, n) ==
    IF mab.is_contextual
    THEN Returned(PredictRows(Prepared(mab, rows, distances), rows))
    ELSE ListValue(PredictDraws(mab, n))

\* the policy object after the prediction
Predicted(mab, rows, distances, n) ==
    IF mab.is_contextual
    THEN AfterPredict(Prepared(mab, rows, distances), rows)
    ELSE AfterDraws(mab, n)

\* the calls made on the policy
PredictCalls(mab, b, i, j, chunk, distances) ==
    IF mab.is_contextual
    THEN (IF IsRadiusOrKNearestSimulator(mab)
          THEN <<Call(DistanceCall(distances), b, i, j, [NoData EXCEPT !.contexts = chunk.contexts])>>
          ELSE <<>>)
         \o <<Call("predict", b, i, j, [NoData EXCEPT !.contexts = chunk.contexts])>>
    ELSE [k \in 1..ALen(chunk.decisions) |-> Call("predict", b, i, j, NoData)]

\* the calls made on the policy when its predict raises: up to the first predict
FailedPredictCalls(mab, b, i, j, chunk, distances) ==
    IF mab.is_contextual THEN PredictCalls(mab, b, i, j, chunk, distances)
    ELSE <<Call("predict", b, i, j, NoData)>>

\* if not isinstance(x, list): x = [x]
AsList(v) == ListValue(v.xs)

(***************************************************************************)
(* The evaluator (config.evaluator) and the reference statistics it gets.  *)
(***************************************************************************)
\* a reference that reads is_quick the wrong way round
ReferenceQuickMutant(s, name, nn) ==
    IF nn /\ s.config.is_quick
    THEN [pair |-> TRUE, train |-> s.arm_to_stats_train,
          neighborhoods |-> s.bandit_to_arm_to_stats_neighborhoods[name], nn |-> nn]
    ELSE [pair |-> FALSE, train |-> s.arm_to_stats_train, neighborhoods |-> <<>>, nn |-> FALSE]

\* a reference that takes no account of is_quick
ReferenceMutant(s, name, nn) ==
    IF nn
    THEN [pair |-> TRUE, train |-> s.arm_to_stats_train,
          neighborhoods |-> s.bandit_to_arm_to_stats_neighborhoods[name], nn |-> nn]
    ELSE [pair |-> FALSE, train |-> s.arm_to_stats_train, neighborhoods |-> <<>>, nn |-> FALSE]

\* the fifth argument: arm_to_stats_train, or the pair with the neighborhood statistics
Reference(s, name, nn) ==
    IF nn /\ ~s.config.is_quick
    THEN [pair |-> TRUE, train |-> s.arm_to_stats_train,
          neighborhoods |-> s.bandit_to_arm_to_stats_neighborhoods[name], nn |-> nn]
    ELSE [pair |-> FALSE, train |-> s.arm_to_stats_train, neighborhoods |-> <<>>, nn |-> FALSE]

\* the evaluator's result, identified by the arguments it was called with
evaluator(arms, decisions, rewards, predictions, reference, stat, start_index) ==
    [arms |-> arms, decisions |-> AList(decisions), rewards |-> AList(rewards),
     predictions |-> predictions, reference |-> reference, stat |-> stat,
     start_index |-> start_index]

EvaluatorCalls(b, i) ==
    <<Call("evaluator.min", b, i, -1, NoData), Call("evaluator.mean", b, i, -1, NoData),
      Call("evaluator.max", b, i, -1, NoData)>>

(***************************************************************************)
(* _offline_test_bandits                                                   *)
(***************************************************************************)
\* a loop that hands every chunk the first rows of the test contexts
OfflineChunkMutant(l, idx, chunk_size) ==
    LET start == idx * chunk_size
        stop == Min2((idx + 1) * chunk_size, ALen(l.test.decisions))
    IN  [l EXCEPT !.i = idx, !.b = 1, !.distances = NoDistances,
                  !.start = start, !.stop = stop,
                  !.chunk = Data(ASlice(l.test.decisions, start, stop), NoData.rewards,
                                 SliceContexts(l.test.contexts, 0, stop - start))]

\* a loop whose chunks run one row into the next chunk
OfflineChunkOverlapMutant(l, idx, chunk_size) ==
    LET start == idx * chunk_size
        stop == Min2((idx + 1) * chunk_size + 1, ALen(l.test.decisions))
    IN  [l EXCEPT !.i = idx, !.b = 1, !.distances = NoDistances,
                  !.start = start, !.stop = stop,
                  !.chunk = Data(ASlice(l.test.decisions, start, stop), NoData.rewards,
                                 SliceContexts(l.test.contexts, start, stop))]

\* a loop that carries the distances of a chunk into the next chunk
OfflineChunkKeepMutant(l, idx, chunk_size) ==
    LET start == idx * chunk_size
        stop == Min2((idx + 1) * chunk_size, ALen(l.test.decisions))
    IN  [l EXCEPT !.i = idx, !.b = 1,
                  !.start = start, !.stop = stop,
                  !.chunk = Data(ASlice(l.test.decisions, start, stop), NoData.rewards,
                                 SliceContexts(l.test.contexts, start, stop))]

\* the locals at the top of the iteration for chunk idx
OfflineChunk(l, idx, chunk_size) ==
    LET start == idx * chunk_size
        stop == Min2((idx + 1) * chunk_size, ALen(l.test.decisions))
    IN  [l EXCEPT !.i = idx, !.b = 1, !.distances = NoDistances,
                  !.start = start, !.stop = stop,
                  !.chunk = Data(ASlice(l.test.decisions, start, stop), NoData.rewards,
                                 SliceContexts(l.test.contexts, start, stop))]

StartOffline ==
    /\ pc = "test"
    /\ ~sim._online
    /\ IF sim._chunk_size = 0
       THEN \* len(test_decisions) / self._chunk_size
            /\ pc' = "raised"
            /\ err' = "ZeroDivisionError"
            /\ loc' = loc
       ELSE LET n_chunks == CeilDiv(ALen(loc.test.decisions), sim._chunk_size)
            IN  /\ loc' = IF n_chunks > 0
                          THEN [OfflineChunk(loc, 0, sim._chunk_size) EXCEPT !.n_chunks = n_chunks]
                          ELSE [loc EXCEPT !.n_chunks = n_chunks, !.b = 1]
                /\ pc' = IF n_chunks > 0 THEN "offline_predict" ELSE "offline_evaluate"
                /\ err' = err
    /\ UNCHANGED <<args, attrs, sim, calls, fn>>

\* the expectations collected for a contextual policy after its prediction
OfflineExpectations(mab, rows, start, stop) ==
    IF IsRadiusOrKNearestSimulator(mab) \/ IsLSHSimulator(mab)
    THEN ListValue(PySlice(mab.row_arm_to_expectation, start, stop))
    ELSE IF ImpIsNeighbors(mab)
    THEN [list |-> FALSE, xs |-> <<Expectation(mab, -1)>>]
    ELSE Returned(ExpectRows(mab, rows))

ExpectationCalls(mab, b, i, j, chunk) ==
    IF mab.is_contextual /\ ~IsNeighborsSimulator(mab) /\ ~ImpIsNeighbors(mab)
    THEN <<Call("predict_expectations", b, i, j, [NoData EXCEPT !.contexts = chunk.contexts])>>
    ELSE <<>>

\* a loop in which every contextual policy fills the cache
ChunkDistancesMutant(mab, rows, distances) ==
    IF mab.is_contextual THEN ObtainDistances(mab, rows, distances) ELSE distances

\* the distances of the chunk after the policy has been processed
ChunkDistances(mab, rows, distances) ==
    IF mab.is_contextual /\ IsRadiusOrKNearestSimulator(mab)
    THEN ObtainDistances(mab, rows, distances)
    ELSE distances

OfflinePredict ==
    /\ pc = "offline_predict"
    /\ LET b == loc.b
           name == sim.bandits[b].name
           mab == sim.bandits[b].mab
           rows == AList(loc.chunk.contexts.arr)
           n == ALen(loc.chunk.decisions)
           predictions == AsList(Predictions(mab, rows, loc.distances, n))
           after == Predicted(mab, rows, loc.distances, n)
           expectations == AsList(OfflineExpectations(after, rows, loc.start, loc.stop))
           last == (b = Len(sim.bandits))
       IN  IF Fails("predict", b, -1, loc.i)
           THEN /\ calls' = calls \o FailedPredictCalls(mab, b, -1, loc.i, loc.chunk,
                                                        loc.distances)
                /\ pc' = Propagate("offline_predict")
                /\ err' = "PolicyError"
                /\ UNCHANGED <<sim, loc>>
           ELSE
           /\ sim' = [sim EXCEPT
                        !.bandits[b].mab = after,
                        !.bandit_to_expectations[name] =
                            IF mab.is_contextual THEN ListValue(@.xs \o expectations.xs) ELSE @,
                        !.bandit_to_predictions[name] = @ \o predictions.xs,
                        !.bandit_to_arm_to_stats_neighborhoods[name] =
                            IF IsNeighborsSimulator(mab) /\ ~sim.config.is_quick
                            THEN after.neighborhood_arm_to_stat ELSE @]
           /\ calls' = calls \o PredictCalls(mab, b, -1, loc.i, loc.chunk, loc.distances)
                             \o ExpectationCalls(mab, b, -1, loc.i, loc.chunk)
           /\ loc' = IF ~last
                     THEN [loc EXCEPT !.b = b + 1,
                                      !.distances = ChunkDistances(mab, rows, loc.distances)]
                     ELSE IF loc.i + 1 < loc.n_chunks
                     THEN OfflineChunk(loc, loc.i + 1, sim._chunk_size)
                     ELSE [loc EXCEPT !.b = 1,
                                      !.distances = ChunkDistances(mab, rows, loc.distances)]
           /\ pc' = IF last /\ ~(loc.i + 1 < loc.n_chunks)
                    THEN "offline_evaluate" ELSE "offline_predict"
           /\ err' = err
    /\ UNCHANGED <<args, attrs, fn>>

\* the final loop: confusion matrix and the three evaluations of one bandit
OfflineEvaluate ==
    /\ pc = "offline_evaluate"
    /\ LET b == loc.b
           name == sim.bandits[b].name
           mab == sim.bandits[b].mab
           nn == IsNeighborsSimulator(mab)
           s1 == [sim EXCEPT
                    !.bandit_to_expectations[name] =
                        IF ~mab.is_contextual
                        THEN [list |-> FALSE, xs |-> <<Expectation(mab, -1)>>] ELSE @,
                    !.bandit_to_neighborhood_size[name] =
                        IF nn /\ ~sim.config.is_quick THEN mab.neighborhood_sizes ELSE @]
           predictions == sim.bandit_to_predictions[name]
           result(stat) == evaluator(sim.arms, loc.test.decisions, loc.test.rewards, predictions,
                                     Reference(s1, name, nn), stat, 0)
       IN  IF ~ConsistentLength(AList(loc.test.decisions), predictions)
           THEN /\ sim' = s1
                /\ calls' = Append(calls, Call("confusion_matrix", b, -1, -1, NoData))
                /\ pc' = "raised"
                /\ err' = "ValueError"
                /\ loc' = loc
           ELSE /\ sim' = [s1 EXCEPT
                             !.bandit_to_confusion_matrices[name] =
                                 Append(@, confusion_matrix(AList(loc.test.decisions), predictions)),
                             !.bandit_to_arm_to_stats_min[name] = result("min"),
                             !.bandit_to_arm_to_stats_avg[name] = result("mean"),
                             !.bandit_to_arm_to_stats_max[name] = result("max")]
                /\ calls' = Append(calls, Call("confusion_matrix", b, -1, -1, NoData))
                              \o EvaluatorCalls(b, -1)
                /\ loc' = [loc EXCEPT !.b = b + 1]
                /\ pc' = IF b = Len(sim.bandits) THEN "done" ELSE "offline_evaluate"
                /\ err' = err
    /\ UNCHANGED <<args, attrs, fn>>

(***************************************************************************)
(* _get_partial_evaluation(name, i, decisions, predictions, rewards,       *)
(* start_index, nn): the Simulator afterwards (the caller tests            *)
(* ConsistentLength first, confusion_matrix raising otherwise).            *)
(***************************************************************************)
\* an evaluation that keeps only the latest confusion matrix
_get_partial_evaluationMutant(s, name, i, decisions, predictions, rewards, start_index, nn) ==
    LET result(stat) == evaluator(s.arms, decisions, rewards, predictions,
                                  Reference(s, name, nn), stat, start_index)
    IN  [s EXCEPT
           !.bandit_to_confusion_matrices[name] =
               <<confusion_matrix(AList(decisions), predictions)>>,
           !.bandit_to_arm_to_stats_min[name] = Put(@, i, result("min")),
           !.bandit_to_arm_to_stats_avg[name] = Put(@, i, result("mean")),
           !.bandit_to_arm_to_stats_max[name] = Put(@, i, result("max"))]

\* an evaluation that takes the statistics of the scored rows as the new baseline
_get_partial_evaluationRebaseMutant(s, name, i, decisions, predictions, rewards, start_index, nn) ==
    LET s0 == _set_stats(s, "train", decisions, rewards)
        result(stat) == evaluator(s0.arms, decisions, rewards, predictions,
                                  Reference(s0, name, nn), stat, start_index)
    IN  [s0 EXCEPT
           !.bandit_to_confusion_matrices[name] =
               Append(@, confusion_matrix(AList(decisions), predictions)),
           !.bandit_to_arm_to_stats_min[name] = Put(@, i, result("min")),
           !.bandit_to_arm_to_stats_avg[name] = Put(@, i, result("mean")),
           !.bandit_to_arm_to_stats_max[name] = Put(@, i, result("max"))]

_get_partial_evaluation(s, name, i, decisions, predictions, rewards, start_index, nn) ==
    LET result(stat) == evaluator(s.arms, decisions, rewards, predictions,
                                  Reference(s, name, nn), stat, start_index)
    IN  [s EXCEPT
           !.bandit_to_confusion_matrices[name] =
               Append(@, confusion_matrix(AList(decisions), predictions)),
           !.bandit_to_arm_to_stats_min[name] = Put(@, i, result("min")),
           !.bandit_to_arm_to_stats_avg[name] = Put(@, i, result("mean")),
           !.bandit_to_arm_to_stats_max[name] = Put(@, i, result("max"))]

(***************************************************************************)
(* _online_test_bandits_chunks                                             *)
(***************************************************************************)
\* the locals at the top of the iteration for chunk j of the current batch;
\* chunk_start keeps the value it has
OnlineChunk(l, j, chunk_size, batch_size) ==
    LET chunk_stop == Min2(l.chunk_start + chunk_size, batch_size)
    IN  [l EXCEPT !.j = j, !.b = 1, !.distances = NoDistances, !.chunk_stop = chunk_stop,
                  !.chunk = Data(ASlice(l.batch.decisions, l.chunk_start, chunk_stop),
                                 NoData.rewards,
                                 SliceContexts(l.batch.contexts, l.chunk_start, chunk_stop))]

\* a loop whose batches stop one row early
OnlineBatchMutant(l, i, start, batch_size) ==
    LET stop == Min2(start + batch_size - 1, ALen(l.test.decisions) + 1)
    IN  [l EXCEPT !.i = i, !.start = start, !.stop = stop,
                  !.batch = SliceData(l.test, start, stop),
                  !.batch_predictions = EmptyDict, !.batch_expectations = EmptyDict,
                  !.chunk_start = 0]

\* the locals at the top of the iteration for batch i, before its chunk loop
OnlineBatch(l, i, start, batch_size) ==
    LET stop == Min2(start + batch_size, ALen(l.test.decisions) + 1)
    IN  [l EXCEPT !.i = i, !.start = start, !.stop = stop,
                  !.batch = SliceData(l.test, start, stop),
                  !.batch_predictions = EmptyDict, !.batch_expectations = EmptyDict,
                  !.chunk_start = 0]

\* entering batch i: its locals, then the first chunk unless the chunk count raises
EnterBatch(l, i, start, s) ==
    IF s._chunk_size = 0
    THEN OnlineBatch(l, i, start, s.config.batch_size)
    ELSE [OnlineChunk(OnlineBatch(l, i, start, s.config.batch_size), 0,
                      s._chunk_size, s.config.batch_size)
            EXCEPT !.n_chunks = CeilDiv(s.config.batch_size, s._chunk_size)]

StartOnline ==
    /\ pc = "test"
    /\ sim._online
    /\ LET n_batches == CeilDiv(ALen(loc.test.decisions), sim.config.batch_size)
       IN  IF n_batches = 0
           THEN /\ loc' = [loc EXCEPT !.n_batches = 0, !.b = 1]
                /\ pc' = "online_total"
                /\ err' = err
           ELSE /\ loc' = [EnterBatch(loc, 0, 0, sim) EXCEPT !.n_batches = n_batches]
                /\ pc' = IF sim._chunk_size = 0 THEN "raised" ELSE "online_predict"
                /\ err' = IF sim._chunk_size = 0 THEN "ZeroDivisionError" ELSE err
    /\ UNCHANGED <<args, attrs, sim, calls, fn>>

\* the expectations collected for a policy after its prediction
OnlineExpectations(mab, rows, start, stop, chunk_start, chunk_stop) ==
    IF ~mab.is_contextual
    THEN [list |-> FALSE, xs |-> <<Expectation(mab, -1)>>]
    ELSE IF IsRadiusOrKNearestSimulator(mab)
    THEN ListValue(PySlice(mab.row_arm_to_expectation, start + chunk_start, start + chunk_stop))
    ELSE IF IsLSHSimulator(mab)
    THEN ListValue(PySlice(mab.row_arm_to_expectation, start, stop))
    ELSE Returned(ExpectRows(mab, rows))

OnlineExpectationCalls(mab, b, i, j, chunk) ==
    IF mab.is_contextual /\ ~IsRadiusOrKNearestSimulator(mab) /\ ~IsLSHSimulator(mab)
    THEN <<Call("predict_expectations", b, i, j, [NoData EXCEPT !.contexts = chunk.contexts])>>
    ELSE <<>>

\* the wrap of a one-row batch applied to a value already made a list
WrapSingleMutant(v, batch_size) ==
    IF batch_size # 1 THEN v ELSE ListValue(<<"[list]">>)

\* if self.config.batch_size == 1: predictions = [predictions]
WrapSingle(v, batch_size) ==
    IF batch_size # 1 THEN v
    ELSE IF v.list THEN ListValue(<<"[list]">>) ELSE ListValue(v.xs)

\* d[name], a new empty list if the name is not in the dict yet
GetOrEmpty(d, name) == IF name \in DOMAIN d THEN d[name] ELSE <<>>

OnlinePredict ==
    /\ pc = "online_predict"
    /\ LET b == loc.b
           name == sim.bandits[b].name
           mab == sim.bandits[b].mab
           rows == AList(loc.chunk.contexts.arr)
           n == ALen(loc.chunk.decisions)
           returned == Predictions(mab, rows, loc.distances, n)
           predictions == AsList(IF mab.is_contextual
                                 THEN WrapSingle(returned, sim.config.batch_size)
                                 ELSE returned)
           after == Predicted(mab, rows, loc.distances, n)
           expectations == AsList(OnlineExpectations(after, rows, loc.start, loc.stop,
                                                     loc.chunk_start, loc.chunk_stop))
           collected == [loc EXCEPT
                           !.batch_predictions =
                               Put(@, name, GetOrEmpty(@, name) \o predictions.xs),
                           !.batch_expectations =
                               Put(@, name, GetOrEmpty(@, name) \o expectations.xs),
                           !.distances = ChunkDistances(mab, rows, loc.distances)]
           last == (b = Len(sim.bandits))
       IN  IF Fails("predict", b, loc.i, loc.j)
           THEN /\ calls' = calls \o FailedPredictCalls(mab, b, loc.i, loc.j, loc.chunk,
                                                        loc.distances)
                /\ pc' = Propagate("online_predict")
                /\ err' = "PolicyError"
                /\ UNCHANGED <<sim, loc>>
           ELSE
           /\ sim' = [sim EXCEPT !.bandits[b].mab = after]
           /\ calls' = calls \o PredictCalls(mab, b, loc.i, loc.j, loc.chunk, loc.distances)
                             \o OnlineExpectationCalls(mab, b, loc.i, loc.j, loc.chunk)
           /\ loc' = IF ~last THEN [collected EXCEPT !.b = b + 1]
                     ELSE IF loc.j + 1 < loc.n_chunks
                     THEN OnlineChunk(collected, loc.j + 1, sim._chunk_size, sim.config.batch_size)
                     ELSE [collected EXCEPT !.b = 1]
           /\ pc' = IF last /\ ~(loc.j + 1 < loc.n_chunks)
                    THEN "online_record" ELSE "online_predict"
           /\ err' = err
    /\ UNCHANGED <<args, attrs, fn>>

\* a loop that forgets to advance start
NextStartMutant(start, batch_size) == start

\* start += self.config.batch_size
NextStart(start, batch_size) == start + batch_size

\* a loop that updates the policy with the batch before it scores the batch
RecordCallsMutant(mab, b, i, batch) ==
    <<Call("partial_fit", b, i, -1, Handed(mab, batch)),
      Call("confusion_matrix", b, i, -1, NoData)>>
    \o EvaluatorCalls(b, i)

\* the calls of one bandit's turn in the loop after the chunks: the evaluation
\* of the batch, then the update with the batch
RecordCalls(mab, b, i, batch) ==
    <<Call("confusion_matrix", b, i, -1, NoData)>>
    \o EvaluatorCalls(b, i)
    \o <<Call("partial_fit", b, i, -1, Handed(mab, batch))>>

\* the loop after the chunks of a batch, for one bandit: collect, evaluate, update
OnlineRecord ==
    /\ pc = "online_record"
    /\ LET b == loc.b
           name == sim.bandits[b].name
           mab == sim.bandits[b].mab
           nn == IsNeighborsSimulator(mab)
           batch_expectations ==
               IF ~mab.is_contextual THEN <<Expectation(mab, -1)>>
               ELSE loc.batch_expectations[name]
           s1 == [sim EXCEPT
                    !.bandit_to_predictions[name] = @ \o loc.batch_predictions[name],
                    !.bandit_to_expectations[name] = ListValue(@.xs \o batch_expectations),
                    !.bandit_to_neighborhood_size[name] =
                        IF IsRadiusOrLSHSimulator(mab) /\ ~sim.config.is_quick
                        THEN mab.neighborhood_sizes ELSE @,
                    !.bandit_to_arm_to_stats_neighborhoods[name] =
                        IF nn /\ ~sim.config.is_quick THEN mab.neighborhood_arm_to_stat ELSE @]
           s2 == _get_partial_evaluation(s1, name, ToString(loc.i), loc.batch.decisions,
                                         loc.batch_predictions[name], loc.batch.rewards,
                                         loc.start, nn)
           last == (b = Len(sim.bandits))
           recorded == [loc EXCEPT !.batch_expectations = Put(@, name, batch_expectations)]
       IN  IF ~ConsistentLength(AList(loc.batch.decisions), loc.batch_predictions[name])
           THEN /\ sim' = s1
                /\ calls' = Append(calls, Call("confusion_matrix", b, loc.i, -1, NoData))
                /\ loc' = recorded
                /\ pc' = "raised"
                /\ err' = "ValueError"
           ELSE IF Fails("partial_fit", b, loc.i, -1)
           THEN /\ sim' = s2
                /\ calls' = calls \o RecordCalls(mab, b, loc.i, loc.batch)
                /\ loc' = recorded
                /\ pc' = Propagate("online_record")
                /\ err' = "PolicyError"
           ELSE /\ sim' = [s2 EXCEPT !.bandits[b].mab = partial_fit(mab, loc.batch.decisions)]
                /\ calls' = calls \o RecordCalls(mab, b, loc.i, loc.batch)
                /\ loc' = IF ~last THEN [recorded EXCEPT !.b = b + 1]
                          ELSE IF loc.i + 1 < loc.n_batches
                          THEN EnterBatch(recorded, loc.i + 1,
                                          NextStart(loc.start, sim.config.batch_size), sim)
                          ELSE [recorded EXCEPT
                                  !.b = 1,
                                  !.start = NextStart(loc.start, sim.config.batch_size)]
                /\ pc' = IF last /\ ~(loc.i + 1 < loc.n_batches)
                         THEN "online_total" ELSE IF last THEN "online_predict"
                         ELSE "online_record"
                /\ err' = err
    /\ UNCHANGED <<args, attrs, fn>>

(***************************************************************************)
(* _online_test_bandits: the final scores over all predictions             *)
(***************************************************************************)
\* final scores computed over the last batch only
TotalEvaluationMutant(s, l, name, nn) ==
    _get_partial_evaluation(s, name, "total", l.batch.decisions, l.batch_predictions[name],
                            l.batch.rewards, l.start, nn)

\* self._get_partial_evaluation(name, "total", test_decisions,
\*                              self.bandit_to_predictions[name], test_rewards, 0, nn)
TotalEvaluation(s, l, name, nn) ==
    _get_partial_evaluation(s, name, "total", l.test.decisions, s.bandit_to_predictions[name],
                            l.test.rewards, 0, nn)

OnlineTotal ==
    /\ pc = "online_total"
    /\ LET b == loc.b
           name == sim.bandits[b].name
           mab == sim.bandits[b].mab
           nn == IsNeighborsSimulator(mab)
           predictions == sim.bandit_to_predictions[name]
           s1 == TotalEvaluation(sim, loc, name, nn)
       IN  IF ~ConsistentLength(AList(loc.test.decisions), predictions)
           THEN /\ sim' = sim
                /\ calls' = Append(calls, Call("confusion_matrix", b, -1, -1, NoData))
                /\ loc' = loc
                /\ pc' = "raised"
                /\ err' = "ValueError"
           ELSE /\ sim' = [s1 EXCEPT
                             !.bandit_to_neighborhood_size[name] =
                                 IF nn /\ ~sim.config.is_quick THEN mab.neighborhood_sizes ELSE @,
                             !.bandit_to_arm_to_stats_neighborhoods[name] =
                                 IF nn /\ ~sim.config.is_quick
                                 THEN mab.neighborhood_arm_to_stat ELSE @]
                /\ calls' = Append(calls, Call("confusion_matrix", b, -1, -1, NoData))
                              \o EvaluatorCalls(b, -1)
                /\ loc' = [loc EXCEPT !.b = b + 1]
                /\ pc' = IF b = Len(sim.bandits) THEN "done" ELSE "online_total"
                /\ err' = err
    /\ UNCHANGED <<args, attrs, fn>>

(***************************************************************************)
(* Inputs.  The explicit rows of a dataset are a prefix of fixed patterns; *)
(* a dataset of N rows with n explicit rows has N - n leading rows equal   *)
(* to the padding row (arm "A", reward 1, context 0).                      *)
(***************************************************************************)
DecisionPattern == <<"A", "A", "B", "A", "B", "B", "A", "B">>
RewardPattern == <<20, 17, 25, 9, 12, 30, 5, 8>>
ContextPattern == <<0, 1, 1, 0, 1, 0, 0, 1>>
NameList == <<"a", "b", "c", "d">>

Dataset(N, n) ==
    Data(Arr(N - n, "A", SubSeq(DecisionPattern, 1, n)),
         Arr(N - n, 1, SubSeq(RewardPattern, 1, n)),
         Contexts(Arr(N - n, 0, SubSeq(ContextPattern, 1, n))))

\* dataset lengths and test fractions: short datasets, and long ones whose test
\* set is a few rows while the train set crosses the 1 GB distance estimate
ShortFractions == {Frac(1, 4), Frac(1, 2), Frac(3, 4)}
LongCases ==
    {[N |-> 50000000, f |-> Frac(1, 2^24)], [N |-> 62500003, f |-> Frac(1, 2^24)],
     [N |-> 62500006, f |-> Frac(1, 2^24)], [N |-> 62500003, f |-> Frac(1, 2^25)],
     [N |-> 71000000, f |-> Frac(1, 2^24)], [N |-> 130000000, f |-> Frac(1, 2^26)]}

Shapes ==
    {[N |-> n, n |-> n, f |-> f] : n \in 2..MaxRows, f \in ShortFractions}
    \cup {sh \in {[N |-> c.N, n |-> n, f |-> c.f] : c \in LongCases, n \in 1..MaxRows} :
            sh.n \in {CeilMul(sh.N, sh.f), CeilMul(sh.N, sh.f) + 1}}

\* bandit lists: entry k is named by one of the first k names, so that both
\* distinct and repeated names occur
Entry(name, mab) == [name |-> name, name_is_str |-> TRUE, mab |-> mab]
BanditLists(len) ==
    {bl \in [1..len -> {Entry(NameList[k], m) : k \in 1..len, m \in MabTypes}] :
        \A k \in 1..len : \E q \in 1..k : bl[k].name = NameList[q]}

Config(batch_size, test_size, is_ordered, is_quick, seed) ==
    [batch_size |-> batch_size, test_size |-> test_size, is_ordered |-> is_ordered,
     is_quick |-> is_quick, seed |-> seed]

Args(bandits, data, config, scaler) ==
    [bandits_is_list |-> TRUE, bandits |-> bandits, fit_input_ok |-> TRUE,
     decisions |-> data.decisions, rewards |-> data.rewards, contexts |-> data.contexts,
     config |-> config, scaler |-> scaler, fault |-> NoFault]

NoFn == [decisions |-> Arr(0, "A", <<>>), rewards |-> Arr(0, 0, <<>>), called |-> FALSE,
         stats |-> EmptyDict]

\* the state before Simulator(...) is called
Fresh ==
    /\ pc = "new"
    /\ err = ""
    /\ attrs = {}
    /\ sim = BlankSim
    /\ loc = BlankLoc
    /\ calls = <<>>
    /\ fn = NoFn

Init ==
    /\ \E len \in 1..MaxBandits, sh \in Shapes :
         \E bl \in BanditLists(len), batch_size \in 0..(CeilMul(sh.N, sh.f) + 1) :
            args = Args(bl, Dataset(sh.N, sh.n),
                        Config(batch_size, sh.f, TRUE, FALSE, 0), "none")
    /\ Fresh

(***************************************************************************)
(* Inputs that exercise the constructor: every kind of invalid argument,   *)
(* and the settings of the configuration, on short datasets.               *)
(***************************************************************************)
BadName(e) == [e EXCEPT !.name_is_str = FALSE]
BadType(e) == [e EXCEPT !.mab = NotAMab]

ListsForConstructor ==
    {<<>>,
     <<Entry("a", MabEpsilonGreedy)>>,
     <<Entry("a", MabLinUCB), Entry("b", MabEpsilonGreedy)>>,
     <<Entry("a", MabRadius), Entry("b", MabKNearest)>>,
     <<Entry("a", MabLSH), Entry("a", MabRadius)>>,
     <<BadName(Entry("a", MabEpsilonGreedy))>>,
     <<BadType(Entry("a", MabEpsilonGreedy))>>,
     <<Entry("a", MabEpsilonGreedy), BadName(Entry("b", MabLinUCB))>>,
     <<Entry("a", MabLinUCB), BadType(Entry("b", MabLinUCB))>>}

\* contexts: None, as given, one-dimensional, or one row short
ContextsChoices(c) ==
    {NoContexts, c, [c EXCEPT !.ndim = 1],
     [c EXCEPT !.arr = Arr(c.arr.pad, c.arr.fill, SubSeq(c.arr.xs, 1, Len(c.arr.xs) - 1))]}

\* rewards: as given, or one row short
RewardsChoices(r) == {r, Arr(r.pad, r.fill, SubSeq(r.xs, 1, Len(r.xs) - 1))}

InitCfg ==
    /\ \E n \in 2..MaxRows, f \in ShortFractions, bl \in ListsForConstructor,
          is_list \in BOOLEAN, fit_input_ok \in BOOLEAN :
         \E batch_size \in 0..(CeilMul(n, f) + 1),
            contexts \in ContextsChoices(Dataset(n, n).contexts),
            rewards \in RewardsChoices(Dataset(n, n).rewards),
            is_ordered \in BOOLEAN, is_quick \in BOOLEAN, scaler \in {"none", "scaler"} :
            args = [Args(bl, Dataset(n, n),
                         Config(batch_size, f, is_ordered, is_quick, n % 2), scaler)
                      EXCEPT !.bandits_is_list = is_list, !.fit_input_ok = fit_input_ok,
                             !.contexts = contexts, !.rewards = rewards]
    /\ Fresh

(***************************************************************************)
(* Runs on histories long enough for the memory estimate to chunk the test *)
(* set.                                                                    *)
(***************************************************************************)
ListsForChunks ==
    {<<Entry("a", MabLinUCB)>>,
     <<Entry("a", MabEpsilonGreedy), Entry("b", MabKNearest)>>,
     <<Entry("a", MabRadius), Entry("b", MabLSH)>>,
     <<Entry("a", MabRadius), Entry("b", MabRadius)>>,
     <<Entry("a", MabRadius), Entry("b", MabLinUCB)>>,
     <<Entry("a", MabRadius), Entry("b", MabEpsilonGreedy)>>,
     <<Entry("a", MabEpsilonGreedy)>>}

\* the long histories, and one whose distance list stays under 1 GB:
\* 40,000,000 rows, 3 test rows
ShapesForChunks ==
    {x \in Shapes : x.N > x.n}
    \cup {[N |-> 40000000, n |-> n, f |-> Frac(1, 2^24)] : n \in {3, 4} \cap 1..MaxRows}

InitChunk ==
    /\ \E sh \in ShapesForChunks, bl \in ListsForChunks :
         \E batch_size \in 0..(CeilMul(sh.N, sh.f) + 1),
            contexts \in {Dataset(sh.N, sh.n).contexts, NoContexts} :
            args = [Args(bl, Dataset(sh.N, sh.n),
                         Config(batch_size, sh.f, TRUE, FALSE, 0), "none")
                      EXCEPT !.contexts = contexts]
    /\ Fresh

(***************************************************************************)
(* Runs in which one operation of one policy raises.                       *)
(***************************************************************************)
ListsForFaults ==
    {<<Entry("a", MabEpsilonGreedy)>>,
     <<Entry("a", MabLinUCB), Entry("b", MabEpsilonGreedy)>>,
     <<Entry("a", MabRadius), Entry("b", MabKNearest)>>}

Faults ==
    {NoFault}
    \cup {[op |-> "fit", b |-> b, i |-> -1, j |-> -1] : b \in 1..MaxBandits}
    \cup {[op |-> "predict", b |-> b, i |-> i, j |-> 0] : b \in 1..MaxBandits, i \in -1..1}
    \cup {[op |-> "partial_fit", b |-> b, i |-> i, j |-> -1] : b \in 1..MaxBandits, i \in 0..1}

InitFault ==
    /\ \E n \in 2..MaxRows, bl \in ListsForFaults, fault \in Faults :
         \E batch_size \in 0..CeilMul(n, Frac(1, 2)) :
            args = [Args(bl, Dataset(n, n), Config(batch_size, Frac(1, 2), TRUE, FALSE, 0),
                         "none")
                      EXCEPT !.fault = fault]
    /\ Fresh

(***************************************************************************)
(* A statistics call on its own: get_arm_stats on any short slice.         *)
(***************************************************************************)
RewardValues == {9, 17, 20, 25}

InitStats ==
    /\ \E n \in 0..MaxStatLen, pad \in 0..1 :
         \E ds \in [1..n -> ArmSet], rs \in [1..n -> RewardValues] :
            fn = [NoFn EXCEPT !.decisions = Arr(pad, "A", ds), !.rewards = Arr(pad, 17, rs)]
    /\ args = Args(<<Entry("a", MabEpsilonGreedy)>>, Dataset(2, 2),
                   Config(0, Frac(1, 2), TRUE, FALSE, 0), "none")
    /\ pc = "stats_call"
    /\ err = ""
    /\ attrs = {}
    /\ sim = BlankSim
    /\ loc = BlankLoc
    /\ calls = <<>>

CallGetArmStats ==
    /\ pc = "stats_call"
    /\ ~fn.called
    /\ fn' = [fn EXCEPT !.called = TRUE,
                        !.stats = get_arm_stats(ArmSet, fn.decisions, fn.rewards)]
    /\ UNCHANGED <<args, pc, err, attrs, sim, loc, calls>>

NextStats == CallGetArmStats

(***************************************************************************)
(* run() called again on the same simulator, after a run that completed or *)
(* raised: the simulator keeps its attributes, the locals are new.         *)
(***************************************************************************)
MaxReruns == 2

RunAgain ==
    /\ pc \in {"done", "raised"}
    /\ Cardinality({p \in DOMAIN calls : calls[p].op = "run"}) < MaxReruns
    /\ sim' = _set_stats(sim, "total", sim.decisions, sim.rewards)
    /\ loc' = BlankLoc
    /\ calls' = Append(calls, Call("run", 0, -1, -1, NoData))
    /\ pc' = "split"
    /\ err' = ""
    /\ UNCHANGED <<args, attrs, fn>>

Next ==
    \/ Construct
    \/ RunTotalStats
    \/ RunTrainTestSplit
    \/ RunScaleAndStats
    \/ TrainBandit
    \/ StartOffline
    \/ OfflinePredict
    \/ OfflineEvaluate
    \/ StartOnline
    \/ OnlinePredict
    \/ OnlineRecord
    \/ OnlineTotal

Spec == Init /\ [][Next]_vars

SpecCfg == InitCfg /\ [][Next]_vars

SpecChunk == InitChunk /\ [][Next]_vars

SpecFault == InitFault /\ [][Next]_vars

SpecStats == InitStats /\ [][NextStats]_vars

(***************************************************************************)
(* The two sizes in the arithmetic of the program.  test_size is a Python  *)
(* float, an IEEE-754 double: a value m / 2^e with m of at most 53 bits,   *)
(* and every operation on floats rounds its exact result to the nearest    *)
(* such value, ties to even.  m is a natural number in limbs of 20 bits,   *)
(* least significant first.                                                *)
(***************************************************************************)
Limb == 1048576
MantissaBits == 53

\* x * n + carry for a small n
RECURSIVE BigMulSmall(_, _, _)
BigMulSmall(x, n, carry) ==
    IF x = <<>> THEN (IF carry = 0 THEN <<>> ELSE <<carry>>)
    ELSE LET t == Head(x) * n + carry
         IN  <<t % Limb>> \o BigMulSmall(Tail(x), n, t \div Limb)

\* quotient and remainder of x by a small d
RECURSIVE BigDivSmall(_, _)
BigDivSmall(x, d) ==
    IF x = <<>> THEN [q |-> <<>>, r |-> 0]
    ELSE LET hi == BigDivSmall(Tail(x), d)
             t == hi.r * Limb + Head(x)
         IN  [q |-> <<t \div d>> \o hi.q, r |-> t % d]

\* x - y - borrow for x >= y
RECURSIVE BigSub(_, _, _)
BigSub(x, y, borrow) ==
    IF x = <<>> THEN <<>>
    ELSE LET t == Head(x) - (IF y = <<>> THEN 0 ELSE Head(y)) - borrow
         IN  <<IF t < 0 THEN t + Limb ELSE t>>
             \o BigSub(Tail(x), IF y = <<>> THEN <<>> ELSE Tail(y), IF t < 0 THEN 1 ELSE 0)

\* x * 2^k for a small x
BigShiftLeft(x, k) == [i \in 1..(k \div 20) |-> 0] \o BigMulSmall(<<x>>, 2 ^ (k % 20), 0)

\* the number of bits of x
RECURSIVE BitLen(_, _)
BitLen(x, top) ==
    IF x = <<>> THEN (IF top = 0 THEN 0 ELSE 1 + BitLen(<<>>, top \div 2))
    ELSE LET hi == BitLen(Tail(x), 0)
         IN  IF hi > 0 THEN hi + 20 ELSE BitLen(<<>>, Head(x))

\* x / 2^e rounded to 53 bits, ties to even; guard is the last bit dropped so
\* far, sticky says whether anything was dropped before it
RECURSIVE RoundBits(_, _, _, _)
RoundBits(x, e, guard, sticky) ==
    IF BitLen(x, 0) <= MantissaBits
    THEN [m |-> IF guard /\ (sticky \/ BigDivSmall(x, 2).r = 1)
                THEN BigMulSmall(x, 1, 1) ELSE x,
          e |-> e]
    ELSE LET h == BigDivSmall(x, 2)
         IN  RoundBits(h.q, e - 1, h.r = 1, sticky \/ guard)

\* the float of the literal p / q, 1/1024 <= p / q < 1: the quotient to 60
\* places, rounded
FloatLiteral(p, q) ==
    LET d == BigDivSmall(BigShiftLeft(p, 60), q)
    IN  RoundBits(d.q, 60, FALSE, d.r # 0)

\* n * x for an int n and a float x
FloatMulInt(n, x) == RoundBits(BigMulSmall(x.m, n, 0), x.e, FALSE, FALSE)

\* the whole part of m / 2^e, a number below 2^20, and whether a fraction was
\* dropped: int(x) is the whole part, math.ceil(x) one more if anything was dropped
RECURSIVE FloatParts(_, _, _)
FloatParts(m, e, dropped) ==
    IF m = <<>> THEN [int |-> 0, dropped |-> dropped]
    ELSE IF e = 0 THEN [int |-> Head(m), dropped |-> dropped]
    ELSE IF e >= 20 THEN FloatParts(Tail(m), e - 20, dropped \/ Head(m) # 0)
    ELSE LET k == IF e >= 10 THEN 10 ELSE e
             h == BigDivSmall(m, 2 ^ k)
         IN  FloatParts(h.q, e - k, dropped \/ h.r # 0)
\* math.ceil(len(decisions) * test_size)
FloatBound(n, test_size) ==
    LET x == FloatMulInt(n, test_size)
        p == FloatParts(x.m, x.e, FALSE)
    IN  p.int + (IF p.dropped THEN 1 ELSE 0)

\* int(len(self.decisions) * (1 - self.config.test_size))
FloatTrainSize(n, test_size) ==
    LET one_minus == RoundBits(BigSub(BigShiftLeft(1, test_size.e), test_size.m, 0),
                               test_size.e, FALSE, FALSE)
        x == FloatMulInt(n, one_minus)
    IN  FloatParts(x.m, x.e, FALSE).int

\* test sizes written as hundredths, and the floats 2^-2 and 2^-60
MaxFloatRows == 25
Hundredths == {7, 14, 28, 50, 68, 80, 90}

InitFloat ==
    /\ \E n \in 1..MaxFloatRows,
          test_size \in {FloatLiteral(k, 100) : k \in Hundredths}
                        \cup {[m |-> <<1>>, e |-> 2], [m |-> <<1>>, e |-> 60]} :
         \E batch_size \in 0..(n + 1) :
            fn = [n |-> n, test_size |-> test_size, batch_size |-> batch_size,
                  bound |-> -1, train_size |-> -1, test_rows |-> -1]
    /\ args = Args(<<Entry("a", MabEpsilonGreedy)>>, Dataset(2, 2),
                   Config(0, Frac(1, 2), TRUE, FALSE, 0), "none")
    /\ pc = "float_new"
    /\ err = ""
    /\ attrs = {}
    /\ sim = BlankSim
    /\ loc = BlankLoc
    /\ calls = <<>>

\* _validate_args: the batch-size check of a constructor call
FloatValidate ==
    /\ pc = "float_new"
    /\ LET bound == FloatBound(fn.n, fn.test_size)
       IN  /\ fn' = [fn EXCEPT !.bound = bound]
           /\ IF fn.batch_size > 0 /\ ~(fn.batch_size <= bound)
              THEN pc' = "float_refused" /\ err' = "ValueError"
              ELSE pc' = "float_split" /\ err' = err
    /\ UNCHANGED <<args, attrs, sim, loc, calls>>

\* _run_train_test_split, ordered: the index of the cut and the rows after it
FloatOrderedSplit ==
    /\ pc = "float_split"
    /\ LET train_size == FloatTrainSize(fn.n, fn.test_size)
       IN  fn' = [fn EXCEPT !.train_size = train_size,
                            !.test_rows = Len(PySlice([k \in 1..fn.n |-> k], train_size, fn.n))]
    /\ pc' = "float_done"
    /\ UNCHANGED <<args, err, attrs, sim, loc, calls>>

SpecRerun == InitChunk /\ [][Next \/ RunAgain]_vars

SpecFloat == InitFloat /\ [][FloatValidate \/ FloatOrderedSplit]_vars

(***************************************************************************)
(* Vocabulary of the properties.                                           *)
(***************************************************************************)
NBandits == Len(args.bandits)
BName(b) == args.bandits[b].name
TestSize == ALen(loc.test.decisions)
TestContextRows == AList(loc.test.contexts.arr)

\* policy b as training leaves it, before any replay
Trained(b) == fit(Wrapped(args.bandits[b].mab, args.config.is_quick), loc.train.decisions)

IsCall(p, op, b, i) == calls[p].op = op /\ calls[p].b = b /\ calls[p].i = i
ScoreOps == {"confusion_matrix", "evaluator.min", "evaluator.mean", "evaluator.max"}
Positions == 1..Len(calls)

\* the radius or k-nearest policies listed before policy b
SharersBefore(b) == {q \in 1..(b - 1) : IsRadiusOrKNearestSimulator(Trained(q))}

\* the distances policy b holds for the given rows: its own if it is the first
\* radius or k-nearest policy of the list, else those of the first one
HeldDistances(b, rows) ==
    IF SharersBefore(b) = {} THEN NoDistances
    ELSE calculate_distances(Trained(CHOOSE q \in SharersBefore(b) :
                                         \A r \in SharersBefore(b) : q <= r), rows)

(***************************************************************************)
(* C1.  In online mode, for every policy and every batch i, the batch is   *)
(* scored (confusion matrix and the three evaluations) after all of the    *)
(* policy's predictions for batch i and before the policy's partial_fit    *)
(* with batch i, and that partial_fit precedes every prediction of the     *)
(* policy for batch i+1; while batch i is predicted every policy has       *)
(* received exactly i updates.                                             *)
(***************************************************************************)
C1_ScoreBeforeUpdate ==
    /\ \A p \in Positions :
         calls[p].op = "partial_fit" =>
            /\ \A op \in ScoreOps : \E q \in 1..(p - 1) : IsCall(q, op, calls[p].b, calls[p].i)
            /\ \E q \in 1..(p - 1) : IsCall(q, "predict", calls[p].b, calls[p].i)
            /\ \A q \in Positions :
                 /\ IsCall(q, "predict", calls[p].b, calls[p].i) => q < p
                 /\ (calls[q].op \in ScoreOps /\ calls[q].b = calls[p].b
                     /\ calls[q].i = calls[p].i) => q < p
                 /\ IsCall(q, "predict", calls[p].b, calls[p].i + 1) => q > p
    /\ \A q \in Positions :
         (calls[q].op \in ScoreOps /\ calls[q].i >= 0) =>
            \A r \in Positions : IsCall(r, "predict", calls[q].b, calls[q].i) => r < q
    /\ \A r \in Positions :
         (calls[r].op = "predict" /\ calls[r].i >= 1) =>
            \E p \in 1..(r - 1) : IsCall(p, "partial_fit", calls[r].b, calls[r].i - 1)
    /\ pc = "online_predict" => \A b \in 1..NBandits : sim.bandits[b].mab.ver = loc.i

W1_TwoBatchesScoredAndUpdated ==
    /\ pc = "done"
    /\ sim._online
    /\ loc.n_batches >= 2
    /\ \E p \in Positions : IsCall(p, "partial_fit", 1, 1)

(***************************************************************************)
(* C2.  After an offline run, the predictions recorded for every policy,   *)
(* appended chunk by chunk, equal the predictions of one pass of the       *)
(* trained policy over the whole test set.                                 *)
(***************************************************************************)
SinglePass(b) ==
    AsList(Predictions(Trained(b), TestContextRows,
                       HeldDistances(b, TestContextRows), TestSize)).xs

C2_ChunkingKeepsPredictions ==
    (pc = "done" /\ ~sim._online) =>
        \A b \in 1..NBandits : sim.bandit_to_predictions[BName(b)] = SinglePass(b)

W2_OfflineRunInSeveralChunks ==
    /\ pc = "done"
    /\ ~sim._online
    /\ loc.n_chunks >= 2
    /\ \E b \in 1..NBandits : sim.bandits[b].mab.is_contextual

(***************************************************************************)
(* C3.  After a completed run in either mode, the prediction sequence of   *)
(* every policy has one entry per test row, in test-row order: entry k is  *)
(* the policy's prediction for test row k, made in the state the policy    *)
(* has when the batch of row k is replayed.                                *)
(***************************************************************************)
BatchOf(k) == IF sim._online THEN (k - 1) \div sim.config.batch_size ELSE 0

RowPrediction(b, k) ==
    LET mab == [Trained(b) EXCEPT !.ver = BatchOf(k), !.rng = k - 1]
        row == <<TestContextRows[k]>>
    IN  Predictions(mab, row, HeldDistances(b, row), 1).xs[1]

C3_OnePredictionPerTestRow ==
    pc = "done" =>
        \A b \in 1..NBandits :
            /\ Len(sim.bandit_to_predictions[BName(b)]) = TestSize
            /\ \A k \in 1..TestSize :
                 sim.bandit_to_predictions[BName(b)][k] = RowPrediction(b, k)

W3_OnlineRunInSeveralChunks ==
    /\ pc = "done"
    /\ sim._online
    /\ loc.n_chunks >= 2
    /\ \E b \in 1..NBandits : sim.bandits[b].mab.is_contextual

(***************************************************************************)
(* C4.  In every chunk the distance cache is populated exactly once: the   *)
(* first neighbor-based policy of the list calls calculate_distances right *)
(* before it predicts, every later neighbor-based policy is handed the     *)
(* cached value through set_distances right before it predicts, and no     *)
(* chunk sees calculate_distances twice.  In the claim as stated, the      *)
(* neighbor-based policies are the radius, k-nearest and approximate-hash  *)
(* (LSH) simulators; in the amended claim, the radius and k-nearest ones.  *)
(***************************************************************************)
DistanceOps == {"calculate_distances", "set_distances"}

\* the prediction at position p comes right after the distance call the claim expects
CacheProtocolAt(p, sharers) ==
    /\ p > 1
    /\ calls[p - 1].b = calls[p].b
    /\ calls[p - 1].i = calls[p].i
    /\ calls[p - 1].j = calls[p].j
    /\ calls[p - 1].op = IF \E q \in sharers : q < calls[p].b
                         THEN "set_distances" ELSE "calculate_distances"

PopulatedOncePerChunk ==
    \A p, q \in Positions :
        (calls[p].op = "calculate_distances" /\ calls[q].op = "calculate_distances"
         /\ calls[p].i = calls[q].i /\ calls[p].j = calls[q].j) => p = q

C4_Original ==
    /\ PopulatedOncePerChunk
    /\ \A p \in Positions :
         (calls[p].op = "predict" /\ IsNeighborsSimulator(Trained(calls[p].b))) =>
            CacheProtocolAt(p, {q \in 1..NBandits : IsNeighborsSimulator(Trained(q))})

C4_CachePopulatedOncePerChunk ==
    /\ PopulatedOncePerChunk
    /\ \A p \in Positions :
         (calls[p].op = "predict" /\ IsRadiusOrKNearestSimulator(Trained(calls[p].b))) =>
            CacheProtocolAt(p, {q \in 1..NBandits : IsRadiusOrKNearestSimulator(Trained(q))})
    /\ \A p \in Positions :
         calls[p].op \in DistanceOps => IsRadiusOrKNearestSimulator(Trained(calls[p].b))

W4_SecondPolicyHandedCachedDistances ==
    /\ pc = "done"
    /\ \E p \in Positions : calls[p].op = "set_distances" /\ calls[p].b = 2
    /\ \E p \in Positions : calls[p].op = "calculate_distances" /\ calls[p].b = 1

(***************************************************************************)
(* C5.  Distance-cache sharing has no effect on predictions: in every      *)
(* prediction step of either replay loop, the predictions collected for    *)
(* the policy are those it produces when it computes its own distances     *)
(* for the chunk.                                                          *)
(***************************************************************************)
OwnDistancePredictions ==
    Predictions(sim.bandits[loc.b].mab, AList(loc.chunk.contexts.arr), NoDistances,
                ALen(loc.chunk.decisions))

C5_SharingKeepsPredictions ==
    [][/\ pc = "offline_predict" =>
            sim'.bandit_to_predictions[sim.bandits[loc.b].name] =
                sim.bandit_to_predictions[sim.bandits[loc.b].name]
                \o AsList(OwnDistancePredictions).xs
       /\ pc = "online_predict" =>
            loc'.batch_predictions[sim.bandits[loc.b].name] =
                GetOrEmpty(loc.batch_predictions, sim.bandits[loc.b].name)
                \o AsList(IF sim.bandits[loc.b].mab.is_contextual
                          THEN WrapSingle(OwnDistancePredictions, sim.config.batch_size)
                          ELSE OwnDistancePredictions).xs]_vars

(***************************************************************************)
(* C6.  Online mode: the confusion matrices recorded per batch, summed     *)
(* entry by entry over the arm pairs, equal a confusion matrix over the    *)
(* full test set.  In the claim as stated, that matrix is the one offline  *)
(* mode computes for the same trained policy and data (stated for the runs *)
(* that predict every batch in one chunk); in the amended                  *)
(* claim, it is the "total" matrix the same online run records last, over  *)
(* the predictions the run accumulated.                                    *)
(***************************************************************************)
\* an entry of a confusion matrix, 0 for an arm pair outside its labels
Entry2(cm, t, p) == IF <<t, p>> \in DOMAIN cm.m THEN cm.m[<<t, p>>] ELSE 0

SumEntries(cms, t, p) == SumSeq([k \in 1..Len(cms) |-> Entry2(cms[k], t, p)])

BatchMatrices(b) ==
    SubSeq(sim.bandit_to_confusion_matrices[BName(b)], 1, loc.n_batches)

C6_Original ==
    (pc = "done" /\ sim._online /\ loc.n_chunks = 1) =>
        \A b \in 1..NBandits : \A t \in ArmSet, p \in ArmSet :
            SumEntries(BatchMatrices(b), t, p) =
                Entry2(confusion_matrix(AList(loc.test.decisions), SinglePass(b)), t, p)

C6_BatchMatricesSumToTotal ==
    (pc = "done" /\ sim._online) =>
        \A b \in 1..NBandits :
            /\ Len(sim.bandit_to_confusion_matrices[BName(b)]) = loc.n_batches + 1
            /\ sim.bandit_to_confusion_matrices[BName(b)][loc.n_batches + 1] =
                   confusion_matrix(AList(loc.test.decisions),
                                    sim.bandit_to_predictions[BName(b)])
            /\ \A t \in ArmSet, p \in ArmSet :
                 SumEntries(BatchMatrices(b), t, p) =
                     Entry2(sim.bandit_to_confusion_matrices[BName(b)][loc.n_batches + 1], t, p)

W6_SeveralBatchMatrices ==
    /\ pc = "done"
    /\ sim._online
    /\ loc.n_batches >= 2
    /\ Len(sim.bandit_to_confusion_matrices[BName(1)]) = loc.n_batches + 1

(***************************************************************************)
(* Vocabulary of the claims about the constructor.                         *)
(***************************************************************************)
\* ceil(len(decisions) * test_size), as the least k with k >= len * test_size
TestSetSize(a) ==
    CHOOSE k \in 0..ALen(a.decisions) :
        /\ ALen(a.decisions) * a.config.test_size.num <= k * a.config.test_size.den
        /\ (k - 1) * a.config.test_size.den < ALen(a.decisions) * a.config.test_size.num

BanditsWellFormed(a) ==
    /\ a.bandits_is_list
    /\ \A k \in 1..Len(a.bandits) : a.bandits[k].name_is_str /\ a.bandits[k].mab.cls # "object"

RewardsMatch(a) == ALen(a.rewards) = ALen(a.decisions)

ContextsWellFormed(a) ==
    a.contexts.given => (a.contexts.ndim = 2 /\ ALen(a.contexts.arr) = ALen(a.decisions))

ValidApartFromBatchSize(a) ==
    BanditsWellFormed(a) /\ a.fit_input_ok /\ RewardsMatch(a) /\ ContextsWellFormed(a)

\* the violations the constructor is to refuse
Violates(a) == ~BanditsWellFormed(a) \/ ~RewardsMatch(a) \/ ~ContextsWellFormed(a)

DuplicateNames(bandits) ==
    \E k, q \in 1..Len(bandits) : k # q /\ bandits[k].name = bandits[q].name

\* no statistics, split, training or replay step has run, no table exists
NothingProcessed ==
    /\ calls = <<>>
    /\ loc = BlankLoc
    /\ attrs \cap InitializedAttrs = {}
    /\ [sim EXCEPT !.config = BlankSim.config, !.bandits = <<>>,
                   !.decisions = BlankSim.decisions, !.rewards = BlankSim.rewards,
                   !.contexts = NoContexts, !.scaler = "none", !._online = FALSE,
                   !._chunk_size = 0] = BlankSim

(***************************************************************************)
(* C7.  With arguments that are valid apart from the batch size, a         *)
(* positive batch_size above ceil(len(decisions) * test_size) makes the    *)
(* constructor raise ValueError before any statistics, split, training or  *)
(* replay step; a positive batch_size up to that size passes validation    *)
(* (the constructor then fails only on an empty bandit list, with          *)
(* IndexError).                                                            *)
(***************************************************************************)
C7_BatchSizeValidated ==
    (pc # "new" /\ ValidApartFromBatchSize(args) /\ args.config.batch_size > 0) =>
        IF args.config.batch_size > TestSetSize(args)
        THEN pc = "failed" /\ err = "ValueError" /\ NothingProcessed
        ELSE pc = "failed" => (err = "IndexError" /\ args.bandits = <<>>)

W7_OversizedBatchRefused ==
    /\ pc = "failed" /\ err = "ValueError"
    /\ ValidApartFromBatchSize(args)
    /\ args.bandits # <<>>
    /\ args.config.batch_size = TestSetSize(args) + 1

(***************************************************************************)
(* C8.  A bandit list in which two entries carry the same name is refused  *)
(* by the constructor, so that no run starts with a repeated name.         *)
(***************************************************************************)
C8_DuplicateNamesRejected ==
    (pc # "new" /\ DuplicateNames(args.bandits)) => pc = "failed"

(***************************************************************************)
(* C9.  A validation violation (bandits not a list, a name that is not a   *)
(* string, a bandit of unrecognized type, rewards or contexts of another   *)
(* length than decisions, contexts not 2-D) makes the constructor raise;   *)
(* as first stated, before anything is stored on the object; as amended,   *)
(* with nothing but the configuration stored on it.  In both no            *)
(* statistics, split, training or replay step runs, no policy operation is *)
(* invoked and no result table exists.                                     *)
(***************************************************************************)
C9_Original ==
    (pc # "new" /\ Violates(args)) =>
        /\ pc = "failed" /\ err \in {"TypeError", "ValueError"}
        /\ attrs = {}
        /\ NothingProcessed

C9_ViolationStoresOnlyConfig ==
    (pc # "new" /\ Violates(args)) =>
        /\ pc = "failed" /\ err \in {"TypeError", "ValueError"}
        /\ attrs \subseteq {"config"}
        /\ sim = [BlankSim EXCEPT !.config = sim.config]
        /\ NothingProcessed

W9_ViolationRefused ==
    /\ pc = "failed" /\ err = "TypeError"
    /\ args.bandits_is_list /\ args.fit_input_ok
    /\ \E k \in 1..Len(args.bandits) : ~args.bandits[k].name_is_str
    /\ attrs = {"config"} /\ sim.config = args.config

(***************************************************************************)
(* C10.  For every decisions/rewards slice and every arm that occurs in    *)
(* it, get_arm_stats gives as count the number of rows deciding that arm,  *)
(* as sum the sum of the rewards of those rows, and as min and max the     *)
(* smallest and largest of those rewards.                                  *)
(***************************************************************************)
\* row i (1-based) of an array, written out
Row(a, i) == IF i <= a.pad THEN a.fill ELSE a.xs[i - a.pad]

RowsOf(arm) == {i \in 1..ALen(fn.decisions) : Row(fn.decisions, i) = arm}

RECURSIVE RewardSum(_)
RewardSum(P) ==
    IF P = {} THEN 0
    ELSE LET i == CHOOSE x \in P : TRUE IN Row(fn.rewards, i) + RewardSum(P \ {i})

C10_ArmStatsOfOccurringArms ==
    fn.called =>
        \A arm \in ArmSet :
            RowsOf(arm) # {} =>
                /\ fn.stats[arm].count = Cardinality(RowsOf(arm))
                /\ fn.stats[arm].sum = RewardSum(RowsOf(arm))
                /\ \E i \in RowsOf(arm) : fn.stats[arm].min = Row(fn.rewards, i)
                /\ \A i \in RowsOf(arm) : fn.stats[arm].min <= Row(fn.rewards, i)
                /\ \E i \in RowsOf(arm) : fn.stats[arm].max = Row(fn.rewards, i)
                /\ \A i \in RowsOf(arm) : fn.stats[arm].max >= Row(fn.rewards, i)

\* the example: decisions [A, A, B, A] with rewards [20, 17, 25, 9]
W10_ExampleSlice ==
    /\ fn.called
    /\ fn.decisions = Arr(0, "A", <<"A", "A", "B", "A">>)
    /\ fn.rewards = Arr(0, 17, <<20, 17, 25, 9>>)
    /\ fn.stats["A"].count = 3 /\ fn.stats["A"].sum = 46
    /\ fn.stats["A"].min = 9 /\ fn.stats["A"].max = 20
    /\ fn.stats["B"].count = 1 /\ fn.stats["B"].sum = 25
    /\ fn.stats["B"].min = 25 /\ fn.stats["B"].max = 25

(***************************************************************************)
(* C11.  An arm without a row in the slice is no error: get_arm_stats      *)
(* returns a record for every arm of the arm set, and the record of an     *)
(* arm without a row has count, sum, min, max, mean and std all 0.         *)
(***************************************************************************)
C11_AbsentArmHasZeroStats ==
    fn.called =>
        /\ DOMAIN fn.stats = ArmSet
        /\ \A arm \in ArmSet :
             RowsOf(arm) = {} =>
                /\ fn.stats[arm].count = 0 /\ fn.stats[arm].sum = 0
                /\ fn.stats[arm].min = 0 /\ fn.stats[arm].max = 0
                /\ fn.stats[arm].mean.num = 0 /\ fn.stats[arm].std = 0
        /\ \A arm \in ArmSet :
             RowsOf(arm) # {} => fn.stats[arm].count = Cardinality(RowsOf(arm))

W11_OneArmAbsent ==
    /\ fn.called
    /\ RowsOf("B") = {} /\ Cardinality(RowsOf("A")) >= 2
    /\ fn.stats["B"].count = 0 /\ fn.stats["B"].max = 0
    /\ fn.stats["A"].count >= 2

(***************************************************************************)
(* C12.  An ordered split of N rows with test fraction f gives a train set *)
(* of exactly floor(N * (1 - f)) rows, the prefix of the dataset, a test   *)
(* set of the remaining rows, the suffix, and test_indices equal to        *)
(* floor(N * (1 - f)), ..., N - 1.                                         *)
(***************************************************************************)
\* floor(N * (1 - f)), as the greatest k with k <= N * (1 - f)
OrderedTrainSize(a) ==
    CHOOSE k \in 0..ALen(a.decisions) :
        LET x == ALen(a.decisions) * (a.config.test_size.den - a.config.test_size.num)
        IN  k * a.config.test_size.den <= x /\ x < (k + 1) * a.config.test_size.den

\* array part holds rows lo+1 .. lo+ALen(part) of array whole (1-based)
RowsFrom(part, whole, lo) == \A k \in 1..ALen(part) : Row(part, k) = Row(whole, lo + k)

SameSlice(part, whole, lo, hi) == ALen(part) = hi - lo /\ RowsFrom(part, whole, lo)

\* rows handed to a policy: decisions and rewards of rows lo .. hi-1 of data d,
\* and the contexts of those rows exactly when the policy is contextual
HandedRows(rows, contextual, d, lo, hi) ==
    /\ SameSlice(rows.decisions, d.decisions, lo, hi)
    /\ SameSlice(rows.rewards, d.rewards, lo, hi)
    /\ rows.contexts.given = contextual
    /\ rows.contexts.given => SameSlice(rows.contexts.arr, d.contexts.arr, lo, hi)

\* the batches of an online run: batch i holds test rows i*B .. min((i+1)*B, M) - 1
BatchIndices == {i \in 0..TestSize : i * args.config.batch_size < TestSize}
BatchLo(i) == i * args.config.batch_size
BatchHi(i) == Min2((i + 1) * args.config.batch_size, TestSize)

(***************************************************************************)
(* C13.  partial_fit is never invoked in offline mode (batch_size = 0); in *)
(* online mode it is invoked at most once per policy and batch, always     *)
(* with the decisions and rewards of that batch and with its contexts      *)
(* exactly when the policy is contextual, and a completed run has invoked  *)
(* it for every policy and every batch.                                    *)
(***************************************************************************)
C13_PartialFitOncePerBatch ==
    /\ args.config.batch_size = 0 => \A p \in Positions : calls[p].op # "partial_fit"
    /\ \A p, q \in Positions :
         (calls[p].op = "partial_fit" /\ calls[q].op = "partial_fit"
          /\ calls[p].b = calls[q].b /\ calls[p].i = calls[q].i) => p = q
    /\ \A p \in Positions :
         calls[p].op = "partial_fit" =>
            /\ calls[p].b \in 1..NBandits /\ calls[p].i \in BatchIndices
            /\ HandedRows(calls[p].rows, sim.bandits[calls[p].b].mab.is_contextual,
                          loc.test, BatchLo(calls[p].i), BatchHi(calls[p].i))
    /\ (pc = "done" /\ args.config.batch_size > 0) =>
         \A b \in 1..NBandits, i \in BatchIndices :
            \E p \in Positions : IsCall(p, "partial_fit", b, i)

W13_TwoPoliciesUpdatedOverTwoBatches ==
    /\ pc = "done" /\ args.config.batch_size > 0
    /\ Cardinality(BatchIndices) >= 2
    /\ NBandits = 2
    /\ sim.bandits[1].mab.is_contextual /\ ~sim.bandits[2].mab.is_contextual
    /\ \E p \in Positions : IsCall(p, "partial_fit", 2, 1) /\ ~calls[p].rows.contexts.given
    /\ \E p \in Positions : IsCall(p, "partial_fit", 1, 1) /\ calls[p].rows.contexts.given

(***************************************************************************)
(* C14.  In one run fit is invoked at most once on every policy, always on *)
(* the train set (its decisions and rewards, and its contexts exactly when *)
(* the policy is contextual), and before any predict call on any policy;   *)
(* once training is over every policy has been fitted.                     *)
(***************************************************************************)
PredictOps == {"predict", "predict_expectations", "calculate_distances", "set_distances"}

C14_FitOnceOnTrainBeforePredict ==
    /\ \A p, q \in Positions :
         (calls[p].op = "fit" /\ calls[q].op = "fit" /\ calls[p].b = calls[q].b) => p = q
    /\ \A p \in Positions :
         calls[p].op = "fit" =>
            /\ calls[p].b \in 1..NBandits
            /\ SameSlice(calls[p].rows.decisions, loc.train.decisions,
                         0, ALen(loc.train.decisions))
            /\ SameSlice(calls[p].rows.rewards, loc.train.rewards, 0, ALen(loc.train.rewards))
            /\ calls[p].rows.contexts =
                  IF Trained(calls[p].b).is_contextual THEN loc.train.contexts ELSE NoContexts
            /\ \A q \in Positions : calls[q].op \in PredictOps => p < q
    /\ pc \in {"test", "offline_predict", "offline_evaluate", "online_predict",
               "online_record", "online_total", "done"} =>
         \A b \in 1..NBandits : \E p \in Positions : IsCall(p, "fit", b, -1)
    /\ \A q \in Positions :
         calls[q].op \in PredictOps =>
            \A b \in 1..NBandits : \E p \in 1..(q - 1) : IsCall(p, "fit", b, -1)

W14_BothPoliciesFittedThenReplayed ==
    /\ pc = "done"
    /\ NBandits = 2
    /\ Trained(1).is_contextual /\ ~Trained(2).is_contextual
    /\ \E p \in Positions : IsCall(p, "fit", 1, -1) /\ calls[p].rows.contexts.given
    /\ \E p \in Positions : IsCall(p, "fit", 2, -1) /\ ~calls[p].rows.contexts.given
    /\ \E q \in Positions : calls[q].op = "predict" /\ calls[q].b = 2

(***************************************************************************)
(* C15.  After a completed online run every policy has one confusion       *)
(* matrix per batch, in batch order, each over the decisions and the       *)
(* predictions of its batch, followed by one more over the full test set   *)
(* and all accumulated predictions: number of batches + 1 in total.  After *)
(* a completed offline run every policy has exactly one confusion matrix,  *)
(* over the whole test set.                                                *)
(***************************************************************************)
TestDecisionList(lo, hi) == [k \in 1..(hi - lo) |-> Row(loc.test.decisions, lo + k)]

C15_ConfusionMatrixRecords ==
    pc = "done" =>
        \A b \in 1..NBandits :
            LET cms == sim.bandit_to_confusion_matrices[BName(b)]
                predictions == sim.bandit_to_predictions[BName(b)]
                n == Cardinality(BatchIndices)
            IN  IF args.config.batch_size > 0
                THEN /\ Len(cms) = n + 1
                     /\ \A i \in BatchIndices :
                          cms[i + 1] =
                              confusion_matrix(TestDecisionList(BatchLo(i), BatchHi(i)),
                                               SubSeq(predictions, BatchLo(i) + 1, BatchHi(i)))
                     /\ cms[n + 1] = confusion_matrix(TestDecisionList(0, TestSize), predictions)
                ELSE /\ Len(cms) = 1
                     /\ cms[1] = confusion_matrix(TestDecisionList(0, TestSize), predictions)

W15_ThreeBatchesFourMatrices ==
    /\ pc = "done" /\ args.config.batch_size = 1
    /\ TestSize = 3
    /\ Len(sim.bandit_to_confusion_matrices[BName(1)]) = 4

(***************************************************************************)
(* C16.  If fit, predict or partial_fit of a policy fails, the failure     *)
(* leaves run() unchanged: the failed call is the last call made on any    *)
(* collaborator, it was made once, and the run has ended with the          *)
(* policy's exception.                                                     *)
(***************************************************************************)
IsFailingCall(p) ==
    /\ calls[p].op = args.fault.op /\ calls[p].b = args.fault.b
    /\ calls[p].i = args.fault.i /\ calls[p].j = args.fault.j

C16_PolicyFailurePropagates ==
    /\ \A p \in Positions :
         IsFailingCall(p) => (p = Len(calls) /\ pc = "raised" /\ err = "PolicyError")
    /\ err = "PolicyError" =>
         (pc = "raised" /\ calls # <<>> /\ IsFailingCall(Len(calls)))

W16_FirstPolicyFailsInSecondBatch ==
    /\ pc = "raised" /\ err = "PolicyError"
    /\ NBandits = 2
    /\ args.fault.op \in {"predict", "partial_fit"} /\ args.fault.b = 1 /\ args.fault.i = 1
    /\ IsFailingCall(Len(calls))
    /\ \E p \in Positions : IsCall(p, "partial_fit", 2, 0)

(***************************************************************************)
(* Vocabulary of the claims about chunks.                                  *)
(***************************************************************************)
\* the rows chunk j of chunk size cs covers in a sequence of m rows
ChunkLo(j, cs) == j * cs
ChunkHi(j, cs, m) == Min2((j + 1) * cs, m)
ChunkIndices(cs, m) == {j \in 0..m : j * cs < m}

PredictCallsOf(b, i, j) ==
    {p \in Positions : IsCall(p, "predict", b, i) /\ calls[p].j = j}

(***************************************************************************)
(* C17.  In online mode the chunks of a batch tile the batch: chunk j of a *)
(* batch covers the rows j * chunk_size .. min((j+1) * chunk_size, batch   *)
(* length) - 1 of the batch, so that the chunks are consecutive, disjoint, *)
(* at most chunk_size long and cover every row of the batch once.          *)
(***************************************************************************)
C17_OnlineChunksTileTheBatch ==
    pc = "online_predict" =>
        LET m == ALen(loc.batch.decisions)
            lo == ChunkLo(loc.j, sim._chunk_size)
            hi == ChunkHi(loc.j, sim._chunk_size, m)
        IN  /\ loc.chunk_start = lo
            /\ SameSlice(loc.chunk.decisions, loc.batch.decisions, lo, hi)
            /\ loc.chunk.contexts.given =>
                  SameSlice(loc.chunk.contexts.arr, loc.batch.contexts.arr, lo, hi)

(***************************************************************************)
(* C18.  In offline mode the chunks tile the test set: chunk idx covers    *)
(* the rows idx * chunk_size .. min((idx+1) * chunk_size, M) - 1, the      *)
(* chunks are processed in increasing order, each has between 1 and        *)
(* chunk_size rows, and after the chunk loop every policy has predicted    *)
(* every chunk, hence every test row, exactly once.                        *)
(***************************************************************************)
C18_OfflineChunksTileTheTestSet ==
    args.config.batch_size = 0 =>
        LET cs == sim._chunk_size
            M == TestSize
        IN  /\ pc = "offline_predict" =>
                 /\ loc.i \in ChunkIndices(cs, M)
                 /\ loc.start = ChunkLo(loc.i, cs) /\ loc.stop = ChunkHi(loc.i, cs, M)
                 /\ loc.stop - loc.start \in 1..cs
                 /\ SameSlice(loc.chunk.decisions, loc.test.decisions, loc.start, loc.stop)
                 /\ loc.chunk.contexts.given =>
                       SameSlice(loc.chunk.contexts.arr, loc.test.contexts.arr,
                                 loc.start, loc.stop)
            /\ \A p \in Positions :
                 calls[p].op = "predict" =>
                    /\ calls[p].j \in ChunkIndices(cs, M)
                    /\ calls[p].rows.contexts.given =>
                          SameSlice(calls[p].rows.contexts.arr, loc.test.contexts.arr,
                                    ChunkLo(calls[p].j, cs), ChunkHi(calls[p].j, cs, M))
                    /\ \A q \in 1..(p - 1) : calls[q].op = "predict" => calls[q].j <= calls[p].j
            /\ pc \in {"offline_evaluate", "done"} =>
                 \A b \in 1..NBandits, j \in ChunkIndices(cs, M) :
                    Cardinality(PredictCallsOf(b, -1, j)) =
                        IF sim.bandits[b].mab.is_contextual THEN 1
                        ELSE ChunkHi(j, cs, M) - ChunkLo(j, cs)

\* three test rows in chunks of two rows and one row
W18_ShortLastChunk ==
    /\ pc = "done" /\ args.config.batch_size = 0
    /\ TestSize = 3 /\ sim._chunk_size = 2
    /\ \E p \in Positions : calls[p].op = "predict" /\ calls[p].j = 1
                            /\ calls[p].rows.contexts.given
                            /\ ALen(calls[p].rows.contexts.arr) = 1

(***************************************************************************)
(* C19.  In online mode the batches tile the test set in order: there are  *)
(* ceil(M / batch_size) batches, batch i covers the rows from i *          *)
(* batch_size on, every batch has at most batch_size rows and only the     *)
(* last one may have fewer, and after a completed run every test row has   *)
(* been replayed in exactly one batch.                                     *)
(***************************************************************************)
C19_BatchesTileTheTestSet ==
    args.config.batch_size > 0 =>
        /\ pc \in {"online_predict", "online_record"} =>
             /\ loc.n_batches = Cardinality(BatchIndices)
             /\ loc.i \in BatchIndices
             /\ loc.start = BatchLo(loc.i)
             /\ SameSlice(loc.batch.decisions, loc.test.decisions, BatchLo(loc.i), BatchHi(loc.i))
             /\ SameSlice(loc.batch.rewards, loc.test.rewards, BatchLo(loc.i), BatchHi(loc.i))
             /\ loc.batch.contexts.given =>
                   SameSlice(loc.batch.contexts.arr, loc.test.contexts.arr,
                             BatchLo(loc.i), BatchHi(loc.i))
             /\ ALen(loc.batch.decisions) \in 1..args.config.batch_size
             /\ ALen(loc.batch.decisions) < args.config.batch_size =>
                   loc.i = Cardinality(BatchIndices) - 1
        /\ \A p \in Positions :
             calls[p].op = "partial_fit" =>
                \A q \in 1..(p - 1) : calls[q].op = "partial_fit" => calls[q].i <= calls[p].i
        /\ pc = "done" =>
             \A b \in 1..NBandits :
                /\ \A i \in BatchIndices :
                     Cardinality({p \in Positions : IsCall(p, "confusion_matrix", b, i)}) = 1
                /\ \A p \in Positions :
                     (calls[p].op = "confusion_matrix" /\ calls[p].i >= 0) =>
                        calls[p].i \in BatchIndices

\* three test rows in batches of two rows and one row
W19_ShortLastBatch ==
    /\ pc = "online_record" /\ args.config.batch_size = 2
    /\ TestSize = 3
    /\ loc.i = 1 /\ loc.start = 2 /\ ALen(loc.batch.decisions) = 1

(***************************************************************************)
(* C20.  A radius or k-nearest policy is handed cached distances only when *)
(* it uses the metric of the policy that computed them in that chunk; a    *)
(* policy with another metric computes its own distances.                  *)
(***************************************************************************)
C20_CacheSharedOnlyWithSameMetric ==
    \A p \in Positions :
        calls[p].op = "set_distances" =>
            \E q \in 1..(p - 1) :
                /\ calls[q].op = "calculate_distances"
                /\ calls[q].i = calls[p].i /\ calls[q].j = calls[p].j
                /\ Trained(calls[q].b).metric = Trained(calls[p].b).metric

(***************************************************************************)
(* C21.  The distance cache lives for one chunk, in both modes: it is      *)
(* empty when the first policy of a chunk is about to predict, a cache     *)
(* that is filled holds distances of the rows of the current chunk, every  *)
(* radius or k-nearest policy already processed in the current chunk holds *)
(* exactly the cached distances, and every set_distances call follows a    *)
(* calculate_distances call made in the same chunk of the same batch on    *)
(* the same rows.                                                          *)
(***************************************************************************)
\* the radius or k-nearest policies already processed in the current chunk
ProcessedSharers == {q \in 1..(loc.b - 1) : IsRadiusOrKNearestSimulator(sim.bandits[q].mab)}

C21_CacheLivesOneChunk ==
    /\ pc \in {"offline_predict", "online_predict"} =>
         /\ loc.b = 1 => loc.distances = NoDistances
         /\ loc.distances.set <=> ProcessedSharers # {}
         /\ loc.distances.set => loc.distances.rows = AList(loc.chunk.contexts.arr)
         /\ \A q \in ProcessedSharers : sim.bandits[q].mab.distances = loc.distances
    /\ \A p \in Positions :
         calls[p].op = "set_distances" =>
            \E q \in 1..(p - 1) :
                /\ calls[q].op = "calculate_distances"
                /\ calls[q].i = calls[p].i /\ calls[q].j = calls[p].j
                /\ calls[q].rows = calls[p].rows

\* the second policy is about to be handed the distances of the second chunk
W21_SecondChunkHasItsOwnDistances ==
    /\ pc = "offline_predict" /\ loc.i = 1 /\ loc.b = 2
    /\ loc.distances.set
    /\ loc.distances.rows = AList(loc.chunk.contexts.arr)
    /\ \E p \in Positions : calls[p].op = "set_distances" /\ calls[p].j = 0
    /\ \E p, q \in Positions :
         /\ calls[p].op = "calculate_distances" /\ calls[p].j = 0
         /\ calls[q].op = "calculate_distances" /\ calls[q].j = 1
         /\ calls[p].rows # calls[q].rows

(***************************************************************************)
(* C22.  A policy that is not neighbor-based (context-free, or contextual  *)
(* without a neighbor simulator) never touches the distance cache: the     *)
(* step that processes it in a chunk makes no calculate_distances or       *)
(* set_distances call, leaves the cached distances of the chunk as they    *)
(* were (the cache is emptied only because the next chunk starts), and     *)
(* leaves the policy without distances of its own.                         *)
(***************************************************************************)
C22_NonNeighborPoliciesLeaveCache ==
    [][(pc \in {"offline_predict", "online_predict"} /\ pc' # "raised"
        /\ ~IsNeighborsSimulator(sim.bandits[loc.b].mab)) =>
           /\ loc'.distances = IF loc'.b > loc.b \/ pc' # pc THEN loc.distances
                               ELSE NoDistances
           /\ \A p \in (Len(calls) + 1)..Len(calls') : calls'[p].op \notin DistanceOps
           /\ sim'.bandits[loc.b].mab.distances = NoDistances]_vars

\* the last chunk is over: a radius policy filled the cache, then a contextual
\* policy without neighbors predicted, and the cache is the radius policy's
W22_CacheKeptAcrossLinearPolicy ==
    /\ pc = "offline_evaluate" /\ loc.b = 1 /\ NBandits = 2
    /\ IsRadiusOrKNearestSimulator(sim.bandits[1].mab)
    /\ ~IsNeighborsSimulator(sim.bandits[2].mab) /\ sim.bandits[2].mab.is_contextual
    /\ loc.distances.set /\ loc.distances = sim.bandits[1].mab.distances
    /\ calls[Len(calls)].b = 2
    /\ \A p \in Positions : calls[p].op \in DistanceOps => calls[p].b = 1
    /\ loc.n_chunks >= 2

(***************************************************************************)
(* C23.  A batch or chunk of size zero never occurs: once the split step   *)
(* has run, the chunk size is at least 1 and at most the test set size,    *)
(* and every batch and every chunk the replay loops process holds at least *)
(* one row.                                                                *)
(***************************************************************************)
AfterSplit == pc \notin {"new", "failed", "constructed", "split"}

C23_NoEmptyBatchOrChunk ==
    /\ AfterSplit => (sim._chunk_size >= 1 /\ sim._chunk_size <= TestSize)
    /\ pc \in {"offline_predict", "online_predict"} => ALen(loc.chunk.decisions) >= 1
    /\ pc \in {"online_predict", "online_record"} => ALen(loc.batch.decisions) >= 1

(***************************************************************************)
(* C24.  Chunk-size selection.  With M test rows and T train rows the      *)
(* distance list takes M * 8 * T bytes.  If that exceeds 1 GB and contexts *)
(* are present, the chunk size is min(floor(M / size in GB) * P, M), P     *)
(* the greatest effective parallelism of a policy; otherwise (at most 1    *)
(* GB, or no contexts) the chunk size is M.  M * 8 * T exceeds 1 GB        *)
(* exactly when M * T exceeds the number of distances in 1 GB, and         *)
(* floor(M / size in GB) is the number of rows whose distances fill 1 GB,  *)
(* the greatest k with k * T distances in 1 GB.                            *)
(***************************************************************************)
DistancesPerGB == BytesPerGB \div BytesPerDistance
TrainRows == ALen(loc.train.decisions)

FootprintOverOneGB == TestSize * TrainRows > DistancesPerGB

RowsPerGB ==
    CHOOSE k \in 0..TestSize :
        k * TrainRows <= DistancesPerGB /\ DistancesPerGB < (k + 1) * TrainRows

\* the greatest min(n_jobs, number of test rows) over the policies
MaxParallelism ==
    CHOOSE P \in 1..TestSize :
        /\ \E b \in 1..NBandits : P = Min2(args.bandits[b].mab.n_jobs, TestSize)
        /\ \A b \in 1..NBandits : P >= Min2(args.bandits[b].mab.n_jobs, TestSize)

C24_ChunkSizeSelection ==
    AfterSplit =>
        sim._chunk_size =
            IF FootprintOverOneGB /\ args.contexts.given
            THEN Min2(RowsPerGB * MaxParallelism, TestSize)
            ELSE TestSize

\* 62,500,006 rows: 4 test rows, distances of 1 row per GB, 2 jobs, chunks of 2
W24_TwoJobsDoubleTheChunk ==
    /\ pc = "stats" /\ args.contexts.given
    /\ TestSize = 4 /\ FootprintOverOneGB /\ RowsPerGB = 1 /\ MaxParallelism = 2
    /\ sim._chunk_size = 2

(***************************************************************************)
(* C25.  In online mode the scores labelled "total" of every policy are    *)
(* computed last: the confusion matrix and the three evaluations of the    *)
(* final scores come after every call made for a batch, the policy's last  *)
(* partial_fit included; they are computed over the whole test set and all *)
(* accumulated predictions with start index 0; and after a completed run   *)
(* the snapshot keys of every policy are the batch indices and "total".    *)
(***************************************************************************)
SnapshotTables ==
    <<sim.bandit_to_arm_to_stats_min, sim.bandit_to_arm_to_stats_avg,
      sim.bandit_to_arm_to_stats_max>>

BatchKeys == {ToString(i) : i \in BatchIndices}

C25_TotalComputedLast ==
    args.config.batch_size > 0 =>
        /\ \A p \in Positions :
             (calls[p].op \in ScoreOps /\ calls[p].i = -1) =>
                /\ \A q \in Positions : calls[q].i >= 0 => q < p
                /\ \A i \in BatchIndices :
                     \E q \in 1..(p - 1) : IsCall(q, "partial_fit", calls[p].b, i)
        /\ \A b \in 1..NBandits, t \in 1..3 :
             (pc \in {"online_total", "done"} /\ BName(b) \in DOMAIN SnapshotTables[t]
              /\ "total" \in DOMAIN SnapshotTables[t][BName(b)]) =>
                LET total == SnapshotTables[t][BName(b)]["total"]
                IN  /\ total.start_index = 0
                    /\ total.stat = <<"min", "mean", "max">>[t]
                    /\ total.decisions = TestDecisionList(0, TestSize)
                    /\ total.predictions = sim.bandit_to_predictions[BName(b)]
                    /\ Len(total.predictions) = TestSize
        /\ \A b \in 1..NBandits, t \in 1..3 :
             /\ (pc = "online_total" /\ b >= loc.b) =>
                   DOMAIN SnapshotTables[t][BName(b)] = BatchKeys
             /\ (pc = "done" \/ (pc = "online_total" /\ b < loc.b)) =>
                   DOMAIN SnapshotTables[t][BName(b)] = BatchKeys \cup {"total"}

\* two batches of two policies, then the final scores of both
W25_TotalAfterTwoBatches ==
    /\ pc = "done" /\ args.config.batch_size > 0
    /\ NBandits = 2 /\ Cardinality(BatchIndices) = 2
    /\ DOMAIN sim.bandit_to_arm_to_stats_avg[BName(2)] = {"0", "1", "total"}
    /\ sim.bandit_to_arm_to_stats_avg[BName(2)]["total"].start_index = 0
    /\ calls[Len(calls)].op = "evaluator.max" /\ calls[Len(calls)].i = -1

(***************************************************************************)
(* C26.  Every confusion record is a matrix over the fixed arm set of the  *)
(* run: whichever arms occur among the true and the predicted decisions    *)
(* that were scored, its rows and its columns are the arms of the arm set. *)
(***************************************************************************)
C26_MatricesOverTheArmSet ==
    \A name \in DOMAIN sim.bandit_to_confusion_matrices :
        \A k \in 1..Len(sim.bandit_to_confusion_matrices[name]) :
            LET cm == sim.bandit_to_confusion_matrices[name][k]
            IN  /\ cm.labels = SetOf(sim.arms)
                /\ DOMAIN cm.m = SetOf(sim.arms) \X SetOf(sim.arms)

(***************************************************************************)
(* C27.  The evaluator receives as reference statistics the pair of the    *)
(* training arm statistics and the policy's per-row neighborhood           *)
(* statistics, with the neighbor flag set, exactly when the policy is a    *)
(* neighbor simulator and is_quick is off; in every other case it receives *)
(* the training arm statistics alone, with the neighbor flag false.  This  *)
(* holds for the evaluations of a batch, for the online "total" and for    *)
(* the offline evaluation, and for the three statistics min, mean and max. *)
(* The neighborhood statistics handed over are those of the rows the       *)
(* policy has predicted up to the end of the rows that are scored.         *)
(***************************************************************************)
\* the evaluator results stored for policy b in table t (1 min, 2 mean, 3 max)
EvaluationsOf(b, t) ==
    IF BName(b) \notin DOMAIN SnapshotTables[t] THEN {}
    ELSE IF args.config.batch_size > 0
    THEN {SnapshotTables[t][BName(b)][k] : k \in DOMAIN SnapshotTables[t][BName(b)]}
    ELSE {SnapshotTables[t][BName(b)]} \ {EmptyDict}

IsPrefix(xs, ys) == Len(xs) <= Len(ys) /\ xs = SubSeq(ys, 1, Len(xs))

C27_ReferenceStatistics ==
    \A b \in 1..NBandits, t \in 1..3 :
        \A r \in EvaluationsOf(b, t) :
            LET paired == IsNeighborsSimulator(Trained(b)) /\ ~args.config.is_quick
            IN  /\ r.stat = <<"min", "mean", "max">>[t]
                /\ r.reference.pair = paired
                /\ r.reference.nn = paired
                /\ r.reference.train = sim.arm_to_stats_train
                /\ paired =>
                      /\ Len(r.reference.neighborhoods) = r.start_index + Len(r.predictions)
                      /\ IsPrefix(r.reference.neighborhoods,
                                  sim.bandits[b].mab.neighborhood_arm_to_stat)
                /\ ~paired => r.reference.neighborhoods = <<>>

\* an online run of a radius and a k-nearest policy over two batches, not quick:
\* the second batch of the second policy is scored against the pair
W27_PairForNeighborPolicy ==
    /\ pc = "done" /\ args.config.batch_size > 0 /\ ~args.config.is_quick
    /\ NBandits = 2 /\ IsNeighborsSimulator(sim.bandits[2].mab)
    /\ Cardinality(BatchIndices) = 2
    /\ sim.bandit_to_arm_to_stats_max[BName(2)]["1"].reference.pair
    /\ sim.bandit_to_arm_to_stats_max[BName(2)]["1"].reference.nn
    /\ Len(sim.bandit_to_arm_to_stats_max[BName(2)]["1"].reference.neighborhoods) = TestSize
    /\ sim.bandit_to_arm_to_stats_max[BName(2)]["total"].reference.pair
    /\ sim.bandit_to_arm_to_stats_min[BName(1)]["0"].reference.pair
    /\ Len(sim.bandit_to_arm_to_stats_min[BName(1)]["0"].reference.neighborhoods) = BatchHi(0)
    /\ BatchHi(0) < TestSize

(***************************************************************************)
(* C28.  The arm statistics of the train set are the scoring baseline      *)
(* throughout replay: from the step that computes them on, they are the    *)
(* statistics of the train split, no training, prediction, evaluation or   *)
(* partial_fit step changes them, and every evaluation of a batch, the     *)
(* "total" evaluation and the offline evaluation were handed these same    *)
(* statistics.                                                             *)
(***************************************************************************)
AfterStats == pc \in {"train", "test", "offline_predict", "offline_evaluate", "online_predict",
                      "online_record", "online_total", "done"}

BaselineHeld ==
    /\ sim.arm_to_stats_train =
           get_arm_stats(SetOf(args.bandits[1].mab.arms), loc.train.decisions, loc.train.rewards)
    /\ \A b \in 1..NBandits, t \in 1..3 :
         \A r \in EvaluationsOf(b, t) : r.reference.train = sim.arm_to_stats_train

C28_TrainStatisticsAreTheBaseline ==
    [][/\ AfterStats => (sim'.arm_to_stats_train = sim.arm_to_stats_train
                         /\ loc'.train = loc.train)
       /\ AfterStats' => BaselineHeld']_vars

\* two batches and the final scores, all against the statistics of the train
\* set, which differ from those of the test set
W28_SameBaselineForEveryBatch ==
    /\ pc = "done" /\ args.config.batch_size > 0 /\ Cardinality(BatchIndices) = 2
    /\ BaselineHeld
    /\ sim.arm_to_stats_train # sim.arm_to_stats_test
    /\ sim.bandit_to_arm_to_stats_avg[BName(1)]["0"].reference.train = sim.arm_to_stats_train
    /\ sim.bandit_to_arm_to_stats_avg[BName(1)]["1"].reference.train = sim.arm_to_stats_train
    /\ sim.bandit_to_arm_to_stats_avg[BName(1)]["total"].reference.train
           = sim.arm_to_stats_train

(***************************************************************************)
(* C29.  run() performs its steps in this order: the statistics of the     *)
(* full dataset, the train/test split, the optional scaling, the           *)
(* statistics of the train set and of the test set, the training of every  *)
(* policy, then the replay, online exactly when batch_size is positive.  A *)
(* configured scaler is fitted once, on the train contexts of the split,   *)
(* and then applied to the test contexts; it is never fitted on the test   *)
(* contexts, and without a scaler no scaler call is made.                  *)
(***************************************************************************)
ScalerOps == {"scaler.fit_transform", "scaler.transform"}
ReplayOps == PredictOps \cup ScoreOps \cup {"partial_fit"}
OnlinePcs == {"online_predict", "online_record", "online_total"}
OfflinePcs == {"offline_predict", "offline_evaluate"}

CallsOf(ops) == {p \in Positions : calls[p].op \in ops}

\* every call of ops1 comes before every call of ops2
Before(ops1, ops2) == \A p \in CallsOf(ops1), q \in CallsOf(ops2) : p < q

\* data d is split data e with its contexts not yet scaled
Unscaled(d, e) ==
    /\ d.decisions = e.decisions /\ d.rewards = e.rewards
    /\ d.contexts.given = e.contexts.given
    /\ d.contexts.given => ScaleContexts(d.contexts) = e.contexts

C29_StepsOfRunInOrder ==
    /\ (pc \in {"split", "stats", "raised"} \/ AfterStats) =>
         sim.arm_to_stats_total =
             get_arm_stats(SetOf(sim.arms), args.decisions, args.rewards)
    /\ pc = "split" =>
         /\ loc.train = NoData /\ loc.test = NoData /\ sim.test_indices = <<>>
         /\ calls = <<>>
    /\ pc \in {"split", "stats"} =>
         /\ sim.arm_to_stats_train = EmptyDict /\ sim.arm_to_stats_test = EmptyDict
         /\ CallsOf(ScalerOps \cup {"fit"} \cup ReplayOps) = {}
    /\ pc = "stats" => Len(sim.test_indices) = TestSize /\ TestSize + TrainRows = ALen(args.decisions)
    /\ AfterStats =>
         /\ sim.arm_to_stats_train =
                get_arm_stats(SetOf(sim.arms), loc.train.decisions, loc.train.rewards)
         /\ sim.arm_to_stats_test =
                get_arm_stats(SetOf(sim.arms), loc.test.decisions, loc.test.rewards)
         /\ Cardinality(CallsOf({"scaler.fit_transform"})) =
                IF args.scaler = "none" THEN 0 ELSE 1
         /\ Cardinality(CallsOf({"scaler.transform"})) =
                IF args.scaler = "none" THEN 0 ELSE 1
         /\ \A p \in CallsOf({"scaler.fit_transform"}) : Unscaled(calls[p].rows, loc.train)
         /\ \A p \in CallsOf({"scaler.transform"}) : Unscaled(calls[p].rows, loc.test)
    /\ pc = "train" => CallsOf(ReplayOps) = {}
    /\ pc = "test" =>
         /\ CallsOf(ReplayOps) = {}
         /\ \A b \in 1..NBandits : \E p \in Positions : IsCall(p, "fit", b, -1)
    /\ Before({"train_test_split"}, ScalerOps \cup {"fit"} \cup ReplayOps)
    /\ Before({"scaler.fit_transform"}, {"scaler.transform"})
    /\ Before(ScalerOps, {"fit"} \cup ReplayOps)
    /\ Before({"fit"}, ReplayOps)
    /\ pc \in OnlinePcs => args.config.batch_size > 0
    /\ pc \in OfflinePcs => args.config.batch_size = 0
    /\ CallsOf({"partial_fit"}) # {} => args.config.batch_size > 0
    /\ pc = "done" => CallsOf({"predict"}) # {}

\* a shuffled split, a scaler, two policies trained, then an online replay
W29_ScaledShuffledOnlineRun ==
    /\ pc = "done" /\ args.scaler # "none" /\ ~args.config.is_ordered
    /\ args.config.batch_size > 0 /\ NBandits = 2
    /\ calls[1].op = "train_test_split"
    /\ calls[2].op = "scaler.fit_transform" /\ Unscaled(calls[2].rows, loc.train)
    /\ calls[3].op = "scaler.transform" /\ Unscaled(calls[3].rows, loc.test)
    /\ calls[4].op = "fit" /\ calls[5].op = "fit"
    /\ calls[5].rows.contexts # calls[2].rows.contexts
    /\ calls[6].op \in PredictOps
    /\ loc.train # loc.test

(***************************************************************************)
(* C30.  With is_quick set the neighborhood bookkeeping is skipped in both *)
(* modes: at every point of the run, and so after it, the neighborhood     *)
(* size table and the neighborhood statistics table of every policy are    *)
(* empty, and no evaluation is handed neighborhood statistics or the       *)
(* neighbor flag.                                                          *)
(***************************************************************************)
C30_QuickSkipsNeighborhoods ==
    args.config.is_quick =>
        /\ \A name \in DOMAIN sim.bandit_to_neighborhood_size :
             sim.bandit_to_neighborhood_size[name] = <<>>
        /\ \A name \in DOMAIN sim.bandit_to_arm_to_stats_neighborhoods :
             sim.bandit_to_arm_to_stats_neighborhoods[name] = <<>>
        /\ \A b \in 1..NBandits, t \in 1..3 :
             \A r \in EvaluationsOf(b, t) :
                ~r.reference.pair /\ ~r.reference.nn /\ r.reference.neighborhoods = <<>>
        /\ pc = "done" =>
             \A b \in 1..NBandits :
                /\ BName(b) \in DOMAIN sim.bandit_to_neighborhood_size
                /\ BName(b) \in DOMAIN sim.bandit_to_arm_to_stats_neighborhoods
                /\ \A t \in 1..3 : EvaluationsOf(b, t) # {}

\* a quick online run of a radius and a k-nearest simulator
W30_QuickRunOfNeighborPolicies ==
    /\ pc = "done" /\ args.config.is_quick /\ args.config.batch_size > 0
    /\ NBandits = 2
    /\ IsRadiusOrKNearestSimulator(sim.bandits[1].mab)
    /\ IsRadiusOrKNearestSimulator(sim.bandits[2].mab)
    /\ sim.bandits[1].mab.is_quick
    /\ Len(sim.bandit_to_predictions[BName(1)]) = TestSize
    /\ sim.bandit_to_neighborhood_size[BName(1)] = <<>>
    /\ sim.bandit_to_arm_to_stats_neighborhoods[BName(2)] = <<>>
    /\ ~sim.bandit_to_arm_to_stats_min[BName(2)]["total"].reference.pair

C32_DatasetIsImmutableInput ==
    /\ pc \notin {"new", "failed"} =>
         /\ sim.decisions = args.decisions
         /\ sim.rewards = args.rewards
         /\ sim.contexts = args.contexts
    /\ AfterStats =>
         \A k \in 1..TestSize :
            LET row == sim.test_indices[k] + 1
            IN  /\ Row(loc.test.decisions, k) = Row(args.decisions, row)
                /\ Row(loc.test.rewards, k) = Row(args.rewards, row)
                /\ loc.test.contexts.given = args.contexts.given
                /\ args.contexts.given =>
                     Row(loc.test.contexts.arr, k) =
                        IF args.scaler = "none" THEN Row(args.contexts.arr, row)
                        ELSE Scaled(Row(args.contexts.arr, row))

\* a completed online run with a scaler: the replay saw scaled contexts and
\* updated the policies batch by batch
W32_ScaledOnlineRunCompleted ==
    /\ pc = "done" /\ args.scaler # "none" /\ args.config.batch_size > 0
    /\ TestSize >= 2 /\ sim.contexts.given
    /\ \E p \in Positions : calls[p].op = "partial_fit"
    /\ \E p \in Positions : calls[p].op = "scaler.transform"
    /\ loc.test.contexts # SliceContexts(sim.contexts, TrainRows, ALen(sim.decisions))

(***************************************************************************)
(* C33.  The bound of the batch-size validation, ceil(N * f), equals the   *)
(* size of the test set the ordered split produces, N - floor(N * (1 - f)),*)
(* for every dataset length N >= 1 and test fraction 0 < f < 1; hence      *)
(* every batch_size the validation accepts is at most the size of the test *)
(* set, and the test set is never empty.                                   *)
(***************************************************************************)
C33_ValidationBoundIsTheTestSetSize ==
    pc = "float_done" =>
        /\ fn.bound = fn.test_rows
        /\ fn.batch_size <= fn.test_rows
        /\ fn.test_rows >= 1

(***************************************************************************)
(* C34.  The ordered split is a partition that keeps rows aligned:         *)
(* decisions, rewards and contexts are cut at the same index, the train    *)
(* and test lengths add up to the dataset length, no row is in both sets,  *)
(* every train row precedes every test row in the original order, and test *)
(* row k is the original row test_indices[k] in all three sequences (its   *)
(* context scaled once the scaler has run).                                *)
(***************************************************************************)
C34_OrderedSplitIsAlignedPartition ==
    (AfterSplit /\ args.config.is_ordered) =>
        LET N == ALen(args.decisions)
            TrainIdx == 0..(TrainRows - 1)
            TestIdx == SetOf(sim.test_indices)
            Seen(c) == IF pc # "stats" /\ args.scaler # "none" THEN Scaled(c) ELSE c
        IN  /\ ALen(loc.train.rewards) = TrainRows /\ ALen(loc.test.rewards) = TestSize
            /\ loc.train.contexts.given = args.contexts.given
            /\ loc.test.contexts.given = args.contexts.given
            /\ args.contexts.given =>
                 /\ ALen(loc.train.contexts.arr) = TrainRows
                 /\ ALen(loc.test.contexts.arr) = TestSize
            /\ TrainRows + TestSize = N
            /\ Len(sim.test_indices) = TestSize /\ Cardinality(TestIdx) = TestSize
            /\ TrainIdx \cap TestIdx = {}
            /\ TrainIdx \cup TestIdx = 0..(N - 1)
            /\ \A i \in TrainIdx, j \in TestIdx : i < j
            /\ \A k \in 1..TrainRows :
                 /\ Row(loc.train.decisions, k) = Row(args.decisions, k)
                 /\ Row(loc.train.rewards, k) = Row(args.rewards, k)
                 /\ args.contexts.given =>
                      Row(loc.train.contexts.arr, k) = Seen(Row(args.contexts.arr, k))
            /\ \A k \in 1..TestSize :
                 /\ Row(loc.test.decisions, k) = Row(args.decisions, sim.test_indices[k] + 1)
                 /\ Row(loc.test.rewards, k) = Row(args.rewards, sim.test_indices[k] + 1)
                 /\ args.contexts.given =>
                      Row(loc.test.contexts.arr, k) =
                          Seen(Row(args.contexts.arr, sim.test_indices[k] + 1))

\* four rows with contexts cut in the middle: two train rows, two test rows
W34_FourRowsCutInTheMiddle ==
    /\ pc = "stats" /\ args.config.is_ordered /\ args.contexts.given
    /\ ALen(args.decisions) = 4 /\ TrainRows = 2 /\ TestSize = 2
    /\ sim.test_indices = <<2, 3>>
    /\ Row(loc.test.rewards, 1) = Row(args.rewards, 3)
    /\ Row(loc.test.rewards, 1) # Row(args.rewards, 2)
    /\ Row(loc.test.contexts.arr, 2) = Row(args.contexts.arr, 4)
    /\ Row(loc.test.contexts.arr, 2) # Row(args.contexts.arr, 3)

(***************************************************************************)
(* C35.  The result tables of a policy do not accumulate across runs:      *)
(* every call of run() on the same simulator resets the policy's           *)
(* predictions, expectations, confusion matrices, evaluation snapshots and *)
(* neighborhood tables when it comes to train the policy, so after any     *)
(* number of consecutive run() calls the prediction sequence of each       *)
(* policy has the length of one test set and its confusion-matrix list     *)
(* holds the records of the last run only: one per batch and one for the   *)
(* total online, a single one offline.                                     *)
(***************************************************************************)
RunCalls == Cardinality({p \in DOMAIN calls : calls[p].op = "run"})

C35_TablesDoNotAccumulateAcrossRuns ==
    [][/\ pc = "train" =>
            LET name == sim.bandits[loc.b].name
            IN  /\ sim'.bandit_to_predictions[name] = <<>>
                /\ sim'.bandit_to_expectations[name] = ListValue(<<>>)
                /\ sim'.bandit_to_confusion_matrices[name] = <<>>
                /\ sim'.bandit_to_arm_to_stats_min[name] = EmptyDict
                /\ sim'.bandit_to_arm_to_stats_avg[name] = EmptyDict
                /\ sim'.bandit_to_arm_to_stats_max[name] = EmptyDict
                /\ sim'.bandit_to_neighborhood_size[name] = <<>>
                /\ sim'.bandit_to_arm_to_stats_neighborhoods[name] = <<>>
       /\ pc' = "done" =>
            \A b \in 1..NBandits :
                LET M == ALen(loc'.test.decisions)
                    B == args.config.batch_size
                IN  /\ Len(sim'.bandit_to_predictions[BName(b)]) = M
                    /\ Len(sim'.bandit_to_confusion_matrices[BName(b)]) =
                          IF B > 0 THEN CeilDiv(M, B) + 1 ELSE 1]_vars

\* the third run of an online simulation of two policies has completed
W35_ThirdOnlineRunCompleted ==
    /\ pc = "done" /\ RunCalls = 2 /\ args.config.batch_size = 1
    /\ NBandits = 2 /\ TestSize = 2
    /\ \A b \in 1..2 :
         /\ Len(sim.bandit_to_predictions[BName(b)]) = 2
         /\ Len(sim.bandit_to_confusion_matrices[BName(b)]) = 3

====
